---- MODULE Spec2Model ----
(***************************************************************************)
(* Model of linux_bushu: the Feishu pull (feishu_api.py), the              *)
(* first_table -> second_table reconciliation and the download task        *)
(* (cron_deployment.py) over the two MySQL tables of database.py.          *)
(*                                                                         *)
(* Conventions.  A Python/MySQL string whose characters matter (title,     *)
(* submission time) is a sequence of one-character strings; the Chinese    *)
(* characters of the source are written in pinyin, one element per         *)
(* character ("ce","shi","man","ju" for the test-fixture prefix).  A       *)
(* payload column holds a text; the texts of the model and what            *)
(* json.loads / json.dumps make of them are listed in JsonTable.           *)
(* Column names: zimu = `字幕分组/分镜`, manju = `漫剧名称`,                  *)
(* miaoshu = `描述词`, leixing = `类型`, submit_time = `提交时间`.            *)
(*                                                                         *)
(* Every database function opens its own connection (autocommit off) and   *)
(* commits once after its statements; the tables are created without an    *)
(* ENGINE clause, i.e. as InnoDB, so the statements of one function take    *)
(* effect together at conn.commit() and not at all when an exception is     *)
(* raised before it.  One action of the model is one such transaction.      *)
(***************************************************************************)
EXTENDS Integers, Sequences, FiniteSets, TLC

VARIABLES first_table, second_table, disk, proc, runs, overlap

vars == <<first_table, second_table, disk, proc, runs, overlap>>

\* ------------------------------------------------------------------ bounds

\* Number of command invocations (cron runs) in one behaviour.
MaxRuns == 3

\* Number of invocations in a behaviour whose invocations may overlap.
MaxOverlapRuns == 2

\* The statements of a database operation that may raise: the first MaxFailAt.
MaxFailAt == 2

\* ------------------------------------------------------------- strings

Range(s) == {s[i] : i \in DOMAIN s}

\* Python str.strip(): leading and trailing whitespace removed.
RECURSIVE LStrip(_)
LStrip(s) == IF s # <<>> /\ Head(s) = " " THEN LStrip(Tail(s)) ELSE s

RECURSIVE RStrip(_)
RStrip(s) ==
    IF s # <<>> /\ s[Len(s)] = " " THEN RStrip(SubSeq(s, 1, Len(s) - 1)) ELSE s

Strip(s) == RStrip(LStrip(s))

\* manju LIKE '测试漫剧%'
TestPrefix == <<"ce", "shi", "man", "ju">>

LikeTest(manju) ==
    Len(manju) >= Len(TestPrefix) /\ SubSeq(manju, 1, Len(TestPrefix)) = TestPrefix

\* Collation order of the characters that occur in a submission time.
CharRank(c) ==
    CASE c = " " -> 0
      [] c = "-" -> 1
      [] c = "0" -> 2
      [] c = "1" -> 3
      [] c = "2" -> 4
      [] c = "5" -> 5
      [] c = ":" -> 6
      [] OTHER -> 7

\* a < b in the order ORDER BY uses on `提交时间` (a VARCHAR).
RECURSIVE StrLess(_, _)
StrLess(a, b) ==
    IF b = <<>> THEN FALSE
    ELSE IF a = <<>> THEN TRUE
    ELSE IF Head(a) = Head(b) THEN StrLess(Tail(a), Tail(b))
    ELSE CharRank(Head(a)) < CharRank(Head(b))

\* "2025-01-01 10:00:00" and "2025-01-01 11:00:00"
Time10 ==
    <<"2", "0", "2", "5", "-", "0", "1", "-", "0", "1", " ",
      "1", "0", ":", "0", "0", ":", "0", "0">>

Time11 ==
    <<"2", "0", "2", "5", "-", "0", "1", "-", "0", "1", " ",
      "1", "1", ":", "0", "0", ":", "0", "0">>

\* ------------------------------------------------------------- payloads

ZimuOne == "[{\"file_token\": \"t1\", \"name\": \"a.txt\"}]"

ZimuTwo ==
    "[{\"file_token\": \"t1\", \"name\": \"a.txt\"}, {\"file_token\": \"t3\", \"name\": \"c.txt\"}]"

MiaoshuOne == "[{\"file_token\": \"t2\", \"name\": \"b.txt\"}]"

\* A list with a number, an object without file_token, an object without
\* name, an object with an empty name and a complete object.
ZimuMixed ==
    "[7, {\"name\": \"n.txt\"}, {\"file_token\": \"t4\"}, {\"file_token\": \"t5\", \"name\": \"\"}, {\"file_token\": \"t1\", \"name\": \"a.txt\"}]"

Blank == " "

\* A text json.loads rejects.
Unparseable == "not json"

\* JSON texts that are not a list: a number, a string and a single object.
JsonNumber == "7"

JsonString == "\"ab\""

JsonObject == "{\"file_token\": \"t1\", \"name\": \"a.txt\"}"

\* The JSON texts of the model that are lists and the Python list each one
\* denotes.
JsonTable ==
    { <<ZimuOne, <<[file_token |-> "t1", name |-> "a.txt"]>> >>,
      <<ZimuTwo, <<[file_token |-> "t1", name |-> "a.txt"],
                   [file_token |-> "t3", name |-> "c.txt"]>> >>,
      <<MiaoshuOne, <<[file_token |-> "t2", name |-> "b.txt"]>> >>,
      <<ZimuMixed, <<[py |-> "int", n |-> 7],
                     [name |-> "n.txt"],
                     [file_token |-> "t4"],
                     [file_token |-> "t5", name |-> ""],
                     [file_token |-> "t1", name |-> "a.txt"]>> >> }

IsJson(text) == \E e \in JsonTable : e[1] = text

\* json.loads(text), for a text that is JSON.
JsonLoads(text) == (CHOOSE e \in JsonTable : e[1] = text)[2]

\* json.dumps(val, ensure_ascii=False)
JsonDumps(val) == (CHOOSE e \in JsonTable : e[2] = val)[1]

\* The JSON texts of the model that are not lists and the Python value
\* json.loads makes of each: an int, a str (its characters) and a dict (its
\* keys in order, with the values).
JsonOtherTable ==
    { <<JsonNumber, [py |-> "int", n |-> 7]>>,
      <<JsonString, [py |-> "str", s |-> <<"a", "b">>]>>,
      <<JsonObject, [py |-> "dict", keys |-> <<"file_token", "name">>,
                     entries |-> [file_token |-> "t1", name |-> "a.txt"]]>> }

IsJsonOther(text) == \E e \in JsonOtherTable : e[1] = text

JsonOtherLoads(text) == (CHOOSE e \in JsonOtherTable : e[1] = text)[2]

\* MySQL TRIM(text) != '' for the texts of the model.
TrimIsEmpty(text) == text \in {"", Blank}

\* Python values of a remote field: a list, a str or None.
PyList(items) == [py |-> "list", items |-> items]

PyStr(s) == [py |-> "str", s |-> s]

PyNone == [py |-> "none"]

\* database.safe_value for a payload field.
safe_value(val) ==
    CASE val.py = "list" -> JsonDumps(val.items)
      [] val.py = "str" -> val.s
      [] OTHER -> ""

\* ------------------------------------------------------------- the tables

\* A row of first_table (database.py:51-60); no column is ever NULL, since
\* every writer passes its values through safe_value.
FirstRow(zimu, manju, miaoshu, leixing, submit_time) ==
    [zimu |-> zimu, manju |-> manju, miaoshu |-> miaoshu, leixing |-> leixing,
     submit_time |-> submit_time]

\* A row of second_table (database.py:63-73).
SecondRow(zimu, manju, miaoshu, leixing, submit_time, makevideo) ==
    [zimu |-> zimu, manju |-> manju, miaoshu |-> miaoshu, leixing |-> leixing,
     submit_time |-> submit_time, makevideo |-> makevideo]

\* UNIQUE KEY uk_type_name (`类型`, `漫剧名称`): the key of a row.
Key(row) == <<row.leixing, row.manju>>

SameKey(a, b) == a.leixing = b.leixing /\ a.manju = b.manju

\* The WHERE clause both selections share: both payloads non-empty after TRIM.
\* A filter that tests the subtitle payload only.
NonEmptyPayloadsZimuOnly(f) == ~TrimIsEmpty(f.zimu)

NonEmptyPayloads(f) == ~TrimIsEmpty(f.zimu) /\ ~TrimIsEmpty(f.miaoshu)

\* The rows of `rows` with the greatest submit_time.
Latest(rows) == {m \in rows : \A r \in rows : ~StrLess(m.submit_time, r.submit_time)}

\* ORDER BY submit_time DESC: every order MySQL may return (ties in any order).
RECURSIVE OrderByTimeDesc(_)
OrderByTimeDesc(rows) ==
    IF rows = {} THEN {<<>>}
    ELSE UNION {{<<m>> \o t : t \in OrderByTimeDesc(rows \ {m})} : m \in Latest(rows)}

Min(a, b) == IF a < b THEN a ELSE b

\* A selection without its LIMIT clause.
LimitOff(seq, n) == seq

\* LIMIT n
\* A LIMIT that returns one row less.
LimitOneShort(seq, n) == SubSeq(seq, 1, Min(n, Len(seq)) - 1)

Limit(seq, n) == SubSeq(seq, 1, Min(n, Len(seq)))

\* Rows of the LEFT JOIN with s.`类型` IS NULL: staging rows without a match.
NewRows(first, second) ==
    {f \in first : NonEmptyPayloads(f) /\ ~\E s \in second : SameKey(f, s)}

\* Rows of the INNER JOIN: staging rows with a match.
ExistingRows(first, second) ==
    {f \in first : NonEmptyPayloads(f) /\ \E s \in second : SameKey(f, s)}

\* get_new_records_from_first_table(limit): the possible result lists.
get_new_records_from_first_table(first, second, limit) ==
    {Limit(seq, limit) : seq \in OrderByTimeDesc(NewRows(first, second))}

\* get_existing_records_from_first_table(): the possible result lists.
get_existing_records_from_first_table(first, second) ==
    OrderByTimeDesc(ExistingRows(first, second))

\* An INSERT into a table without the unique key uk_type_name.
InsertSecondNoUnique(state, row) ==
    IF ~state.ok
    THEN [ok |-> FALSE, table |-> state.table, count |-> state.count]
    ELSE [ok |-> TRUE,
          table |-> state.table \cup
                      {SecondRow(row.zimu, row.manju, row.miaoshu, row.leixing,
                                 row.submit_time, 0)},
          count |-> state.count + 1]

\* An INSERT that stores the row as already downloaded.
InsertSecondDone(state, row) ==
    IF ~state.ok \/ \E s \in state.table : SameKey(s, row)
    THEN [ok |-> FALSE, table |-> state.table, count |-> state.count]
    ELSE [ok |-> TRUE,
          table |-> state.table \cup
                      {SecondRow(row.zimu, row.manju, row.miaoshu, row.leixing,
                                 row.submit_time, 1)},
          count |-> state.count + 1]

\* One INSERT INTO second_table: a duplicate key raises (IntegrityError).
InsertSecond(state, row) ==
    IF ~state.ok \/ \E s \in state.table : SameKey(s, row)
    THEN [ok |-> FALSE, table |-> state.table, count |-> state.count]
    ELSE [ok |-> TRUE,
          table |-> state.table \cup
                      {SecondRow(row.zimu, row.manju, row.miaoshu, row.leixing,
                                 row.submit_time, 0)},
          count |-> state.count + 1]

\* The loop of insert_new_records over `records` on one connection; the
\* statement number fail_at raises (0: none does; 1 also stands for a failing
\* connect).  state.table is what the connection sees, state.count the
\* statements that succeeded.
RECURSIVE InsertLoop(_, _, _)
InsertLoop(state, records, fail_at) ==
    IF records = <<>> \/ ~state.ok THEN state
    ELSE IF state.count + 1 = fail_at THEN [state EXCEPT !.ok = FALSE]
    ELSE InsertLoop(InsertSecond(state, Head(records)), Tail(records), fail_at)

\* insert_new_records on a connection that commits every statement: a
\* failure keeps the rows inserted before it and returns their count.
insert_autocommit(second, records, fail_at) ==
    LET done == InsertLoop([ok |-> TRUE, table |-> second, count |-> 0], records, fail_at)
    IN  IF records = <<>>
        THEN [table |-> second, count |-> 0, raised |-> FALSE, statements |-> 0]
        ELSE [table |-> done.table, count |-> done.count, raised |-> ~done.ok,
              statements |-> done.count]

\* insert_new_records(records): the table and the count returned, whether a
\* database call raised, and the statements that had succeeded by then.  The
\* only commit follows the loop (database.py:209): when a statement raises,
\* the connection is dropped and nothing is committed.
insert_new_records(second, records, fail_at) ==
    LET done == InsertLoop([ok |-> TRUE, table |-> second, count |-> 0], records, fail_at)
    IN  IF records = <<>>
        THEN [table |-> second, count |-> 0, raised |-> FALSE, statements |-> 0]
        ELSE IF done.ok
             THEN [table |-> done.table, count |-> done.count, raised |-> FALSE,
                   statements |-> done.count]
             ELSE [table |-> second, count |-> 0, raised |-> TRUE,
                   statements |-> done.count]

\* An UPDATE keyed by the title alone.
UpdateSecondByTitle(table, row) ==
    {IF s.manju = row.manju
     THEN SecondRow(row.zimu, s.manju, row.miaoshu, s.leixing, row.submit_time, 0)
     ELSE s : s \in table}

\* An UPDATE that leaves makevideo as it is.
UpdateSecondKeepFlag(table, row) ==
    {IF SameKey(s, row)
     THEN SecondRow(row.zimu, s.manju, row.miaoshu, s.leixing, row.submit_time,
                    s.makevideo)
     ELSE s : s \in table}

\* One UPDATE second_table SET ... makevideo=0 WHERE leixing=%s AND manju=%s.
UpdateSecond(table, row) ==
    {IF SameKey(s, row)
     THEN SecondRow(row.zimu, s.manju, row.miaoshu, s.leixing, row.submit_time, 0)
     ELSE s : s \in table}

RECURSIVE UpdateLoop(_, _)
UpdateLoop(table, records) ==
    IF records = <<>> THEN table
    ELSE UpdateLoop(UpdateSecond(table, Head(records)), Tail(records))

\* update_existing_records(records); the statement number fail_at raises
\* (0: none does), and then nothing is committed (database.py:252).
update_existing_records(second, records, fail_at) ==
    IF records = <<>>
    THEN [table |-> second, count |-> 0, raised |-> FALSE, statements |-> 0]
    ELSE IF fail_at \in 1..Len(records)
         THEN [table |-> second, count |-> 0, raised |-> TRUE,
               statements |-> fail_at - 1]
         ELSE [table |-> UpdateLoop(second, records), count |-> Len(records),
               raised |-> FALSE, statements |-> Len(records)]

\* A record of get_pending_download_records(): the four columns of the SELECT
\* list (it has no `类型`).  row is the key of the row the record was read
\* from; the task never reads it, it only names the row in the properties.
PendingRecord(s) ==
    [manju |-> s.manju, submit_time |-> s.submit_time, zimu |-> s.zimu,
     miaoshu |-> s.miaoshu, row |-> Key(s)]

PendingRows(second) == {s \in second : s.makevideo = 0}

\* A status update keyed by the submission time alone.
MatchesStatusKeyTimeOnly(s, manju, submit_time) == s.submit_time = submit_time

\* The statement of update_makevideo_status: keyed by title and time.
MatchesStatusKey(s, manju, submit_time) ==
    s.manju = manju /\ s.submit_time = submit_time

\* A status update that writes nothing.
update_makevideo_status_skipped(second, manju, submit_time, status) == second

update_makevideo_status(second, manju, submit_time, status) ==
    {IF MatchesStatusKey(s, manju, submit_time)
     THEN [s EXCEPT !.makevideo = status]
     ELSE s : s \in second}

\* ------------------------------------------------- download_project_files

\* Python None in a slot that otherwise holds a str.
NoneVal == "<None>"

\* Truth value of a str-or-None.
Truthy(v) == v \notin {NoneVal, ""}

\* isinstance(item, dict): a dict is a record of its keys; any other JSON
\* value is tagged with py.
IsDict(item) == "py" \notin DOMAIN item

\* item.get(key, default)
DictGet(item, key, default) == IF key \in DOMAIN item THEN item[key] ELSE default

\* A replace that changes the first occurrence only.
ReplaceFirstOnly(s, ch) ==
    [i \in DOMAIN s |-> IF s[i] = ch /\ \A j \in 1..(i - 1) : s[j] # ch THEN "_" ELSE s[i]]

\* s.replace(ch, "_")
Replace(s, ch) == [i \in DOMAIN s |-> IF s[i] = ch THEN "_" ELSE s[i]]

\* The characters the folder name may not hold (feishu_api.py:162), in order.
IllegalChars == <<":", "/", "\\", "*", "?", "\"", "<", ">", "|", " ">>

RECURSIVE ReplaceEach(_, _)
ReplaceEach(s, chars) ==
    IF chars = <<>> THEN s ELSE ReplaceEach(Replace(s, Head(chars)), Tail(chars))

\* A sanitization that keeps the blanks.
SafeSubmitTimeKeepSpace(submit_time) ==
    ReplaceEach(submit_time, SubSeq(IllegalChars, 1, Len(IllegalChars) - 1))

\* safe_submit_time of download_project_files
SafeSubmitTime(submit_time) == ReplaceEach(submit_time, IllegalChars)

\* folder_name = f"{manju}_{safe_submit_time}"
FolderName(manju, submit_time) == manju \o <<"_">> \o SafeSubmitTime(submit_time)

\* save_path = f"{folder_path}/{name}"
SavePath(folder, name) == [folder |-> folder, name |-> name]

\* feishu_api.safe_json_loads for a str: whatever json.loads returns (a list
\* or not), [] when json.loads raises.
safe_json_loads(text) ==
    IF IsJson(text) THEN PyList(JsonLoads(text))
    ELSE IF IsJsonOther(text) THEN JsonOtherLoads(text)
    ELSE PyList(<<>>)

\* `for item in files`: the items the loop visits, or TypeError when files is
\* not iterable.  A str yields its characters, a dict its keys.
PyIter(files) ==
    CASE files.py = "list" -> [raises |-> FALSE, items |-> files.items]
      [] files.py = "str" ->
            [raises |-> FALSE,
             items |-> [i \in 1..Len(files.s) |-> PyStr(<<files.s[i]>>)]]
      [] files.py = "dict" ->
            [raises |-> FALSE,
             items |-> [i \in 1..Len(files.keys) |-> PyStr(<<files.keys[i]>>)]]
      [] OTHER -> [raises |-> TRUE, items |-> <<>>]

\* The entries of a payload that is a JSON list, none for any other text.
Entries(text) ==
    LET files == safe_json_loads(text)
    IN  IF files.py = "list" THEN files.items ELSE <<>>

\* download_file_from_feishu: fails without a token, or when the request
\* fails (the file tokens in `failing`); otherwise writes save_path.
download_file_from_feishu(file_token, access_token, failing) ==
    Truthy(file_token) /\ Truthy(access_token) /\ file_token \notin failing

\* A pass that counts an entry it cannot download as a failed download.
LoopBodyMalformedFails(item, folder, default_name, access_token, failing, acc) ==
    IF ~IsDict(item) THEN [acc EXCEPT !.success = FALSE]
    ELSE LET file_token == DictGet(item, "file_token", NoneVal)
             name == DictGet(item, "name", default_name)
             save_path == SavePath(folder, name)
         IN  IF Truthy(file_token) /\ Truthy(name)
             THEN IF download_file_from_feishu(file_token, access_token, failing)
                  THEN [acc EXCEPT !.attempts = Append(@, file_token),
                                   !.written = @ \cup {save_path}]
                  ELSE [acc EXCEPT !.attempts = Append(@, file_token),
                                   !.failed = Append(@, file_token),
                                   !.success = FALSE]
             ELSE [acc EXCEPT !.success = FALSE]

\* One pass of a download loop (feishu_api.py:180-195 and 203-218) over
\* `item`; acc holds the loop's success flag, the file tokens whose download
\* was attempted so far, those whose download failed and the files written.
LoopBody(item, folder, default_name, access_token, failing, acc) ==
    IF ~IsDict(item) THEN acc
    ELSE LET file_token == DictGet(item, "file_token", NoneVal)
             name == DictGet(item, "name", default_name)
             save_path == SavePath(folder, name)
         IN  IF Truthy(file_token) /\ Truthy(name)
             THEN IF download_file_from_feishu(file_token, access_token, failing)
                  THEN [acc EXCEPT !.attempts = Append(@, file_token),
                                   !.written = @ \cup {save_path}]
                  ELSE [acc EXCEPT !.attempts = Append(@, file_token),
                                   !.failed = Append(@, file_token),
                                   !.success = FALSE]
             ELSE acc

\* A loop that stops at the first failed download.
RECURSIVE DownloadLoopBreak(_, _, _, _, _, _)
DownloadLoopBreak(items, folder, default_name, access_token, failing, acc) ==
    IF items = <<>> \/ ~acc.success THEN acc
    ELSE DownloadLoopBreak(Tail(items), folder, default_name, access_token, failing,
                           LoopBody(Head(items), folder, default_name, access_token,
                                    failing, acc))

\* for item in files: ... (no break: a failure only clears the flag)
RECURSIVE DownloadLoop(_, _, _, _, _, _)
DownloadLoop(items, folder, default_name, access_token, failing, acc) ==
    IF items = <<>> THEN acc
    ELSE DownloadLoop(Tail(items), folder, default_name, access_token, failing,
                      LoopBody(Head(items), folder, default_name, access_token,
                               failing, acc))

\* download_project_files: the downloads attempted in order, the files
\* written and overall_success; raised tells that one of the two loops raised
\* TypeError, and then nothing is returned (overall_success is FALSE here).
download_project_files(manju, submit_time, zimu_data, miaoshu_data, access_token, failing) ==
    LET folder == FolderName(manju, submit_time)
        zimu_files == PyIter(safe_json_loads(zimu_data))
        zimu == DownloadLoop(zimu_files.items, folder, "zimu.txt",
                             access_token, failing,
                             [success |-> TRUE, attempts |-> <<>>, failed |-> <<>>,
                              written |-> {}])
        miaoshu_files == PyIter(safe_json_loads(miaoshu_data))
        miaoshu == IF zimu_files.raises \/ miaoshu_files.raises THEN zimu
                   ELSE DownloadLoop(miaoshu_files.items, folder, "miaoshuci.txt",
                                     access_token, failing,
                                     [success |-> TRUE, attempts |-> zimu.attempts,
                                      failed |-> zimu.failed,
                                      written |-> zimu.written])
        raised == zimu_files.raises \/ miaoshu_files.raises
    IN  [folder |-> folder,
         raised |-> raised,
         attempts |-> miaoshu.attempts,
         failed |-> miaoshu.failed,
         written |-> miaoshu.written,
         zimu_success |-> zimu.success,
         miaoshu_success |-> ~raised /\ miaoshu.success,
         overall_success |-> ~raised /\ zimu.success /\ miaoshu.success]

\* ------------------------------------------------------------- the pull

\* A Feishu timestamp: the number sec*1000 (milliseconds) or sec (seconds).
PyMillis(sec) == [py |-> "int", millis |-> TRUE, sec |-> sec]

PySeconds(sec) == [py |-> "int", millis |-> FALSE, sec |-> sec]

\* strftime("%Y-%m-%d %H:%M:%S") of the epoch seconds of the model.
FormatEpoch(sec) ==
    CASE sec = 1735725600 -> Time10
      [] sec = 1735729200 -> Time11
      [] OTHER -> <<>>

\* format_time_value(ts): ts > 1e12 is read as milliseconds; "" when float(ts)
\* raises.
format_time_value(ts) ==
    IF ts.py # "int" THEN <<>>
    ELSE IF ts.millis
         THEN IF ts.sec > 1000000000 THEN FormatEpoch(ts.sec)
              ELSE FormatEpoch(ts.sec * 1000)
         ELSE FormatEpoch(ts.sec)

\* A record of the bitable: its "fields" dict.  The keys zimu, manju, miaoshu,
\* leixing, submit_time stand for "字幕分组/分镜", "您创作的漫剧名称为？",
\* "描述词", "男/女频？", "提交时间".
RemoteRecord(zimu, manju, miaoshu, leixing, submit_time) ==
    [fields |-> [zimu |-> zimu, manju |-> manju, miaoshu |-> miaoshu,
                 leixing |-> leixing, submit_time |-> submit_time]]

\* One page of the records endpoint: raises (transport error), or a body with
\* code, data.items, data.has_more, data.page_token (0 stands for no token).
Page(raises, code, items, has_more, page_token) ==
    [raises |-> raises, code |-> code, items |-> items, has_more |-> has_more,
     page_token |-> page_token]

\* The page the remote sends for a request: the first page without a token.
Respond(remote, page_token) == remote[IF page_token = 0 THEN 1 ELSE page_token]

\* A loop that gives up on the records gathered when a page fails.
RECURSIVE BitableLoopDropAll(_, _, _)
BitableLoopDropAll(remote, page_token, got) ==
    LET result == Respond(remote, page_token)
        requests == Append(got.requests, page_token)
    IN  IF result.raises \/ result.code # 0
        THEN [all_records |-> <<>>, requests |-> requests]
        ELSE LET next == [all_records |-> got.all_records \o result.items,
                          requests |-> requests]
             IN  IF result.has_more
                 THEN BitableLoopDropAll(remote, result.page_token, next)
                 ELSE next

\* A loop that asks for every page of the remote table, whatever has_more says.
RECURSIVE BitableLoopAllPages(_, _, _)
BitableLoopAllPages(remote, page_token, got) ==
    LET result == Respond(remote, page_token)
        requests == Append(got.requests, page_token)
        index == IF page_token = 0 THEN 1 ELSE page_token
    IN  IF result.raises \/ result.code # 0
        THEN [all_records |-> got.all_records, requests |-> requests]
        ELSE LET next == [all_records |-> got.all_records \o result.items,
                          requests |-> requests]
             IN  IF index < Len(remote)
                 THEN BitableLoopAllPages(remote, index + 1, next)
                 ELSE next

\* get_bitable_records: the while loop from the state (page_token,
\* all_records); requests lists the page token of every request made (0: the
\* request carries no page_token).
RECURSIVE BitableLoop(_, _, _)
BitableLoop(remote, page_token, got) ==
    LET result == Respond(remote, page_token)
        requests == Append(got.requests, page_token)
    IN  IF result.raises \/ result.code # 0
        THEN [all_records |-> got.all_records, requests |-> requests]
        ELSE LET next == [all_records |-> got.all_records \o result.items,
                          requests |-> requests]
             IN  IF result.has_more
                 THEN BitableLoop(remote, result.page_token, next)
                 ELSE next

\* The run of get_bitable_records against `remote`: the list returned and the
\* requests made.
BitableRun(remote) == BitableLoop(remote, 0, [all_records |-> <<>>, requests |-> <<>>])

get_bitable_records(remote) == BitableRun(remote).all_records

\* ------------------------------------------------------- parse_bitable_url

\* [a-zA-Z0-9]
Alnum ==
    {"a", "b", "c", "d", "e", "f", "g", "h", "i", "j", "k", "l", "m", "n", "o", "p",
     "q", "r", "s", "t", "u", "v", "w", "x", "y", "z",
     "A", "B", "C", "D", "E", "F", "G", "H", "I", "J", "K", "L", "M", "N", "O", "P",
     "Q", "R", "S", "T", "U", "V", "W", "X", "Y", "Z",
     "0", "1", "2", "3", "4", "5", "6", "7", "8", "9"}

\* The longest prefix of s made of characters of Alnum.
RECURSIVE AlnumRun(_)
AlnumRun(s) ==
    IF s = <<>> \/ Head(s) \notin Alnum THEN <<>> ELSE <<Head(s)>> \o AlnumRun(Tail(s))

BasePrefix == <<"/", "b", "a", "s", "e", "/">>

\* The positions where r'/base/([a-zA-Z0-9]+)' matches in url.
BaseMatches(url) ==
    {i \in 1..Len(url) :
        /\ i + Len(BasePrefix) <= Len(url)
        /\ SubSeq(url, i, i + Len(BasePrefix) - 1) = BasePrefix
        /\ url[i + Len(BasePrefix)] \in Alnum}

\* s.split(ch, 1): the part before the first ch and the part after it.
Before(s, ch) ==
    IF \E i \in DOMAIN s : s[i] = ch
    THEN SubSeq(s, 1, (CHOOSE i \in DOMAIN s : s[i] = ch /\ \A j \in 1..(i - 1) : s[j] # ch) - 1)
    ELSE s

After(s, ch) ==
    IF \E i \in DOMAIN s : s[i] = ch
    THEN SubSeq(s, (CHOOSE i \in DOMAIN s : s[i] = ch /\ \A j \in 1..(i - 1) : s[j] # ch) + 1,
                Len(s))
    ELSE <<>>

\* urlparse(url).query: what follows the first "?" of the url without its
\* fragment.
UrlQuery(url) == After(Before(url, "#"), "?")

\* s.split(ch)
RECURSIVE Split(_, _)
Split(s, ch) ==
    IF \E i \in DOMAIN s : s[i] = ch
    THEN <<Before(s, ch)>> \o Split(After(s, ch), ch)
    ELSE <<s>>

\* parse_qs(query)[name]: the values of the fields name=value of the query
\* with a non-blank value (blank values are dropped).
QueryValues(query, name) ==
    LET fields == Split(query, "&")
        IsField(f) == /\ \E i \in DOMAIN f : f[i] = "="
                      /\ Before(f, "=") = name
                      /\ After(f, "=") # <<>>
        found == SelectSeq(fields, IsField)
    IN  [i \in DOMAIN found |-> After(found[i], "=")]

TableParam == <<"t", "a", "b", "l", "e">>

\* A parser that takes an empty table_id when the query names no table.
parse_bitable_url_lenient(url) ==
    IF BaseMatches(url) = {}
    THEN [raises |-> TRUE, app_token |-> <<>>, table_id |-> <<>>]
    ELSE LET first == CHOOSE i \in BaseMatches(url) : \A j \in BaseMatches(url) : i <= j
             app_token == AlnumRun(SubSeq(url, first + Len(BasePrefix), Len(url)))
             tables == QueryValues(UrlQuery(url), TableParam)
         IN  [raises |-> FALSE, app_token |-> app_token,
              table_id |-> IF tables = <<>> THEN <<>> ELSE tables[1]]

\* parse_bitable_url(url): (app_token, table_id), or the ValueError raised.
parse_bitable_url(url) ==
    IF BaseMatches(url) = {}
    THEN [raises |-> TRUE, app_token |-> <<>>, table_id |-> <<>>]
    ELSE LET first == CHOOSE i \in BaseMatches(url) : \A j \in BaseMatches(url) : i <= j
             app_token == AlnumRun(SubSeq(url, first + Len(BasePrefix), Len(url)))
             tables == QueryValues(UrlQuery(url), TableParam)
         IN  IF tables = <<>>
             THEN [raises |-> TRUE, app_token |-> app_token, table_id |-> <<>>]
             ELSE [raises |-> FALSE, app_token |-> app_token, table_id |-> tables[1]]

\* The row the pull makes of one record (feishu_api.py:377-393, 413).
RowOfRecord(record, now) ==
    LET fields == record.fields
        raw_time == fields.submit_time
    IN  FirstRow(safe_value(fields.zimu), fields.manju.s, safe_value(fields.miaoshu),
                 fields.leixing.s,
                 IF raw_time.py # "none" THEN format_time_value(raw_time) ELSE now)

\* The "skip empty records" tests (feishu_api.py:403-411).
Skipped(row) == row.manju = <<>> \/ row.zimu = "" \/ row.miaoshu = ""

\* INSERT IGNORE: a duplicate key keeps the row already stored.
UpsertFirstIgnore(table, row) ==
    IF \E f \in table : SameKey(f, row) THEN table ELSE table \cup {row}

\* INSERT INTO first_table ... ON DUPLICATE KEY UPDATE zimu, miaoshu, leixing,
\* submit_time.
UpsertFirst(table, row) ==
    IF \E f \in table : SameKey(f, row)
    THEN {IF SameKey(f, row)
          THEN FirstRow(row.zimu, f.manju, row.miaoshu, row.leixing, row.submit_time)
          ELSE f : f \in table}
    ELSE table \cup {row}

\* A DELETE that removes nothing.
DeleteNothing(table) == table

\* A loop that stops at the first record it would skip.
RECURSIVE PullLoopStopAtSkip(_, _, _)
PullLoopStopAtSkip(table, records, now) ==
    IF records = <<>> THEN table
    ELSE LET row == RowOfRecord(Head(records), now)
         IN  IF Skipped(row) THEN table
             ELSE PullLoopStopAtSkip(UpsertFirst(table, row), Tail(records), now)

\* for record in records: ... cursor.execute(insert_sql, values)
RECURSIVE PullLoop(_, _, _)
PullLoop(table, records, now) ==
    IF records = <<>> THEN table
    ELSE LET row == RowOfRecord(Head(records), now)
         IN  PullLoop(IF Skipped(row) THEN table ELSE UpsertFirst(table, row),
                      Tail(records), now)

\* DELETE FROM first_table WHERE manju NOT LIKE '测试漫剧%'
DeleteNonTest(table) == {f \in table : LikeTest(f.manju)}

\* The records of the pull that reach cursor.execute, in order.
Upserted(records, now) ==
    LET NotSkipped(record) == ~Skipped(RowOfRecord(record, now))
    IN  SelectSeq(records, NotSkipped)

\* A pull that goes on to the DELETE and the inserts with an empty listing.
fetch_without_early_return(first, access_token, url, remote, now, fail_at) ==
    IF ~Truthy(access_token)
    THEN [table |-> first, success |-> FALSE, requests |-> <<>>, statements |-> 0,
          raised |-> FALSE]
    ELSE IF parse_bitable_url(url).raises
    THEN [table |-> first, success |-> FALSE, requests |-> <<>>, statements |-> 0,
          raised |-> FALSE]
    ELSE LET run == BitableRun(remote)
             total == 1 + Len(Upserted(run.all_records, now))
         IN  IF fail_at \in 1..total
             THEN [table |-> first, success |-> FALSE, requests |-> run.requests,
                   statements |-> fail_at - 1, raised |-> TRUE]
             ELSE [table |-> PullLoop(DeleteNonTest(first), run.all_records, now),
                   success |-> TRUE, requests |-> run.requests,
                   statements |-> total, raised |-> FALSE]

\* fetch_feishu_data_to_first_table: the table afterwards, the value returned,
\* the page requests made, the statements executed before the function
\* returned or raised, and whether a database call raised.  With fail_at = k
\* in 1..total the k-th statement raises (k = 1 also stands for a failing
\* connect); the connection is dropped without a commit.
fetch_feishu_data_to_first_table(first, access_token, url, remote, now, fail_at) ==
    IF ~Truthy(access_token)
    THEN [table |-> first, success |-> FALSE, requests |-> <<>>, statements |-> 0,
          raised |-> FALSE]
    ELSE IF parse_bitable_url(url).raises
    THEN [table |-> first, success |-> FALSE, requests |-> <<>>, statements |-> 0,
          raised |-> FALSE]
    ELSE LET run == BitableRun(remote)
             total == 1 + Len(Upserted(run.all_records, now))
         IN  IF run.all_records = <<>>
             THEN [table |-> first, success |-> TRUE, requests |-> run.requests,
                   statements |-> 0, raised |-> FALSE]
             ELSE IF fail_at \in 1..total
                  THEN [table |-> first, success |-> FALSE, requests |-> run.requests,
                        statements |-> fail_at - 1, raised |-> TRUE]
                  ELSE [table |-> PullLoop(DeleteNonTest(first), run.all_records, now),
                        success |-> TRUE, requests |-> run.requests,
                        statements |-> total, raised |-> FALSE]

\* get_feishu_access_token: the tenant token, None when the request fails.
get_feishu_access_token(auth_ok) == IF auth_ok THEN "tenant_access_token" ELSE NoneVal

\* ------------------------------------------------------------ test fixtures

TestTitle1 == TestPrefix \o <<"1">>

TestTitle2 == TestPrefix \o <<"2">>

\* test_data of insert_test_data_to_first_table (database.py:333-336);
\* "yuanchuang" and "gaibian" stand for the categories 原创 and 改编.
test_data ==
    << FirstRow("file_token_test1", TestTitle1, "file_token_desc1", "yuanchuang", Time10),
       FirstRow("file_token_test2", TestTitle2, "file_token_desc2", "gaibian", Time11) >>

\* INSERT ... ON DUPLICATE KEY UPDATE zimu, miaoshu (database.py:338-344)
UpsertTest(table, row) ==
    IF \E f \in table : SameKey(f, row)
    THEN {IF SameKey(f, row) THEN [f EXCEPT !.zimu = row.zimu, !.miaoshu = row.miaoshu]
          ELSE f : f \in table}
    ELSE table \cup {row}

RECURSIVE ExecuteMany(_, _)
ExecuteMany(table, rows) ==
    IF rows = <<>> THEN table ELSE ExecuteMany(UpsertTest(table, Head(rows)), Tail(rows))

\* Test data inserted whatever the table holds.
insert_test_data_unchecked(first, force_insert, db_ok) ==
    IF ~db_ok THEN first ELSE ExecuteMany(first, test_data)

\* insert_test_data_to_first_table(force_insert): inserts only into an empty
\* table unless forced.
insert_test_data_to_first_table(first, force_insert, db_ok) ==
    IF ~db_ok THEN first
    ELSE IF Cardinality(first) > 0 /\ ~force_insert THEN first
    ELSE ExecuteMany(IF force_insert THEN {f \in first : ~LikeTest(f.manju)} ELSE first,
                     test_data)

\* clean_test_data(): both DELETEs and the commit, or nothing when a database
\* call raises.
clean_test_data(first, second, db_ok) ==
    IF db_ok
    THEN [first |-> {f \in first : ~LikeTest(f.manju)},
          second |-> {t \in second : ~LikeTest(t.manju)}, success |-> TRUE]
    ELSE [first |-> first, second |-> second, success |-> FALSE]

\* ------------------------------------------------------------ the inputs

TitleA == <<"A">>

\* The same title with a leading blank.
TitleBlankA == <<" ", "A">>

ItemsZimuOne == PyList(JsonLoads(ZimuOne))

ItemsZimuTwo == PyList(JsonLoads(ZimuTwo))

ItemsMiaoshuOne == PyList(JsonLoads(MiaoshuOne))

ItemsZimuMixed == PyList(JsonLoads(ZimuMixed))

\* The records the remote table may hold; "nan" and "nv" stand for the
\* categories 男频 and 女频.
RecA == RemoteRecord(ItemsZimuOne, PyStr(TitleA), ItemsMiaoshuOne, PyStr("nan"),
                     PyMillis(1735725600))

\* The same title and time as RecA in the other category.
RecANv == RemoteRecord(ItemsZimuOne, PyStr(TitleA), ItemsMiaoshuOne, PyStr("nv"),
                       PyMillis(1735725600))

\* RecA edited: another subtitle payload, a later time.
RecAEdited == RemoteRecord(ItemsZimuTwo, PyStr(TitleA), ItemsMiaoshuOne, PyStr("nan"),
                           PyMillis(1735729200))

\* A title with a leading blank.
RecBlankA == RemoteRecord(ItemsZimuOne, PyStr(TitleBlankA), ItemsMiaoshuOne,
                          PyStr("nan"), PyMillis(1735729200))

\* A blank subtitle payload.
RecNoZimu == RemoteRecord(PyStr(Blank), PyStr(TitleA), ItemsMiaoshuOne, PyStr("nv"),
                          PyMillis(1735729200))

\* A blank description payload.
RecNoMiaoshu == RemoteRecord(ItemsZimuOne, PyStr(TitleBlankA), PyStr(Blank),
                             PyStr("nan"), PyMillis(1735725600))

\* A subtitle list with malformed entries.
RecMixed == RemoteRecord(ItemsZimuMixed, PyStr(TitleA), ItemsMiaoshuOne, PyStr("nan"),
                         PyMillis(1735725600))

\* Records the pull skips: no title, no subtitle field, an empty description.
RecNoTitle == RemoteRecord(ItemsZimuOne, PyStr(<<>>), ItemsMiaoshuOne, PyStr("nan"),
                           PyMillis(1735729200))

RecNoneZimu == RemoteRecord(PyNone, PyStr(TitleA), ItemsMiaoshuOne, PyStr("nv"),
                            PyMillis(1735729200))

RecEmptyMiaoshu == RemoteRecord(ItemsZimuTwo, PyStr(TitleA), PyStr(""), PyStr("nan"),
                                PyMillis(1735729200))

\* The key of the first test fixture, with a blank description payload and a
\* later submission time.
RecTestBlank == RemoteRecord(ItemsZimuOne, PyStr(TestTitle1), PyStr(Blank),
                             PyStr("yuanchuang"), PyMillis(1735729200))

\* The listings of one pull.
Listings ==
    { <<>>,
      <<RecTestBlank, RecA>>,
      <<RecMixed>>,
      <<RecNoTitle, RecA, RecNoneZimu, RecANv, RecEmptyMiaoshu>>,
      <<RecA, RecANv>>,
      <<RecA, RecAEdited>>,
      <<RecAEdited, RecA>>,
      <<RecAEdited, RecNoZimu>>,
      <<RecBlankA, RecA, RecANv>>,
      <<RecANv, RecNoMiaoshu>> }

\* Three pages chained 1 -> 3 -> 2 by their page tokens.
RemoteThreePages ==
    << Page(FALSE, 0, <<RecBlankA>>, TRUE, 3),
       Page(FALSE, 0, <<RecANv>>, FALSE, 0),
       Page(FALSE, 0, <<RecA>>, TRUE, 2) >>

\* The request of the second page raises; a third page exists.
RemoteSecondRaises ==
    << Page(FALSE, 0, <<RecA, RecANv>>, TRUE, 2),
       Page(TRUE, 0, <<>>, FALSE, 0),
       Page(FALSE, 0, <<RecBlankA>>, FALSE, 0) >>

\* The second page answers with an error code (and a body).
RemoteSecondRejected ==
    << Page(FALSE, 0, <<RecA, RecAEdited>>, TRUE, 2),
       Page(FALSE, 99991663, <<RecANv>>, TRUE, 3),
       Page(FALSE, 0, <<RecBlankA>>, FALSE, 0) >>

\* The first page is the last one, although it names a next page.
RemoteStopsAtFirst ==
    << Page(FALSE, 0, <<RecAEdited, RecA>>, FALSE, 2),
       Page(FALSE, 0, <<RecANv>>, FALSE, 0) >>

\* The remote tables of one pull: a single page, answered or failing, and the
\* tables of several pages.
Remotes ==
    {<<Page(FALSE, 0, items, FALSE, 0)>> : items \in Listings}
      \cup {<<Page(TRUE, 0, <<>>, FALSE, 0)>>}
      \cup {RemoteThreePages, RemoteSecondRaises, RemoteSecondRejected,
            RemoteStopsAtFirst}

\* settings.feishu_bitable_url, with h for the scheme and the host:
\* h/base/a1?table=t&view=v
UrlOk ==
    <<"h", "/", "b", "a", "s", "e", "/", "a", "1", "?", "t", "a", "b", "l", "e", "=",
      "t", "&", "v", "i", "e", "w", "=", "v">>

\* h/wiki/a1?table=t
UrlNoBase ==
    <<"h", "/", "w", "i", "k", "i", "/", "a", "1", "?", "t", "a", "b", "l", "e", "=", "t">>

\* h/base/?table=t
UrlNoAppToken ==
    <<"h", "/", "b", "a", "s", "e", "/", "?", "t", "a", "b", "l", "e", "=", "t">>

\* h/base/a1?view=v
UrlNoTable ==
    <<"h", "/", "b", "a", "s", "e", "/", "a", "1", "?", "v", "i", "e", "w", "=", "v">>

\* h/base/a1?table=
UrlBlankTable ==
    <<"h", "/", "b", "a", "s", "e", "/", "a", "1", "?", "t", "a", "b", "l", "e", "=">>

\* h/base/a1#?table=t
UrlTableInFragment ==
    <<"h", "/", "b", "a", "s", "e", "/", "a", "1", "#", "?", "t", "a", "b", "l", "e",
      "=", "t">>

Urls == {UrlOk, UrlNoBase, UrlNoAppToken, UrlNoTable, UrlBlankTable, UrlTableInFragment}

\* datetime.now() during a pull.
NowValues == {Time11}

\* The file tokens a payload names.
TokensOf(text) ==
    {item.file_token :
        item \in {x \in Range(Entries(text)) :
                     IsDict(x) /\ "file_token" \in DOMAIN x}}

\* -------------------------------------------------------------- processes

Procs == {1, 2}

\* The locals of an invocation that is not running.  command is sys.argv[1]
\* ("" when there is none), cmd the task that is running.  db_error: the task
\* logged a database error.  failed: the multi-statement database operation of
\* the task that raised last, and the number of the statement that raised.
\* requeued: the keys of the rows whose makevideo the update phase turned from
\* 1 to 0.  requests, statements, failed and requeued are not variables of
\* the code: they record what the task asked of the remote table and of the
\* database.  fetch_success and sync_success are the "success" entries of
\* fetch_result and sync_result in daily_complete_task.
Idle ==
    [command |-> "idle", cmd |-> "idle", pc |-> "idle",
     new_records |-> <<>>, existing_records |-> <<>>,
     pending_records |-> {}, log |-> {}, records |-> <<>>, now |-> <<>>,
     access_token |-> NoneVal, url |-> <<>>, remote |-> <<>>, requests |-> <<>>,
     statements |-> 0,
     failed |-> [op |-> "none", at |-> 0],
     success |-> TRUE, db_error |-> FALSE, before_count |-> 0, after_count |-> 0,
     inserted_count |-> 0, updated_count |-> 0, requeued |-> {},
     success_count |-> 0, failed_count |-> 0,
     fetch_success |-> TRUE, sync_success |-> TRUE,
     page_token |-> 0, has_more |-> TRUE]

Init ==
    /\ first_table = {}
    /\ second_table = {}
    /\ disk = {}
    /\ proc = [p \in Procs |-> Idle]
    /\ runs = 0
    /\ overlap = FALSE

InitOverlap ==
    /\ first_table = {}
    /\ second_table = {}
    /\ disk = {}
    /\ proc = [p \in Procs |-> Idle]
    /\ runs = 0
    /\ overlap = TRUE

\* The commands of main; "" is the invocation without an argument.
Commands == {"fetch", "sync", "download", "daily", "clean", ""}

\* The commands that run daily_complete_task.
IsDaily(command) == command \in {"daily", ""}

\* The tasks an invocation runs: daily_complete_task runs three.
Cost(command) == IF IsDaily(command) THEN 3 ELSE 1

\* The last task of the command of process p has returned.
Finished(p) ==
    /\ proc[p].pc = "done"
    /\ IsDaily(proc[p].command) => proc[p].cmd = "download"

\* Process p takes a step: main exits as soon as its task has returned, so
\* no other process is between the return of its last task and its exit.
Runs(p) == \A q \in Procs \ {p} : ~Finished(q)

\* cron starts an invocation with `command`: one at a time, unless runs may
\* overlap.
MayStart(p, command) ==
    /\ Runs(p)
    /\ proc[p].cmd = "idle"
    /\ runs + Cost(command) <= (IF overlap THEN MaxOverlapRuns ELSE MaxRuns)
    /\ overlap \/ (p = 1 /\ \A q \in Procs : proc[q].cmd = "idle")

\* A daily_complete_task that goes on only after a task that succeeded.
ContinuesOnSuccess(p, previous) ==
    /\ Runs(p)
    /\ IsDaily(proc[p].command)
    /\ proc[p].cmd = previous
    /\ proc[p].pc = "done"
    /\ proc[p].success

\* daily_complete_task goes from the task `previous`, which has returned, to
\* the next one.
Continues(p, previous) ==
    /\ Runs(p)
    /\ IsDaily(proc[p].command)
    /\ proc[p].cmd = previous
    /\ proc[p].pc = "done"

\* The locals of process p when it enters task cmd, fresh under `command` or
\* as the next stage of daily_complete_task.
Enter(p, command, cmd) ==
    IF proc[p].cmd = "idle"
    THEN [Idle EXCEPT !.command = command, !.cmd = cmd]
    ELSE [Idle EXCEPT !.command = proc[p].command, !.cmd = cmd,
                      !.fetch_success = IF proc[p].cmd = "fetch" THEN proc[p].success
                                        ELSE proc[p].fetch_success,
                      !.sync_success = IF proc[p].cmd = "sync" THEN proc[p].success
                                       ELSE proc[p].sync_success]

\* The tasks started so far.
Started(p, command) ==
    /\ runs' = (IF proc[p].cmd = "idle" THEN runs + Cost(command) ELSE runs)
    /\ overlap' = overlap

\* The inputs of one pull, <<auth_ok, url, remote, fail_at>>: the url matters
\* once a token was obtained, the remote table once the url was parsed, the
\* failing statement once records were fetched.
FetchInputs ==
    {<<FALSE, UrlOk, <<Page(TRUE, 0, <<>>, FALSE, 0)>>, 0>>}
      \cup {<<TRUE, url, <<Page(TRUE, 0, <<>>, FALSE, 0)>>, 0>> : url \in Urls \ {UrlOk}}
      \cup {in \in {TRUE} \X {UrlOk} \X Remotes \X (0..MaxFailAt) :
              in[4] > 0 => get_bitable_records(in[3]) # <<>>}

\* main "fetch" and step 1 of daily_complete_task: create_database_tables,
\* then fetch_feishu_data_to_first_table.
Fetch(p) ==
    /\ \E command \in {"fetch", "daily", ""} :
         /\ MayStart(p, command)
         /\ Started(p, command)
         /\ \E create_ok \in BOOLEAN :
              IF ~create_ok
              THEN /\ first_table' = first_table
                   /\ proc' = [proc EXCEPT ![p] =
                         [Enter(p, command, "fetch") EXCEPT
                             !.pc = "done", !.success = FALSE, !.db_error = TRUE]]
              ELSE \E in \in FetchInputs, now \in NowValues :
                     LET access_token == get_feishu_access_token(in[1])
                         url == in[2]
                         remote == in[3]
                         got == fetch_feishu_data_to_first_table(
                                    first_table, access_token, url, remote, now, in[4])
                     IN  /\ first_table' = got.table
                         /\ proc' = [proc EXCEPT ![p] =
                               [Enter(p, command, "fetch") EXCEPT
                                   !.pc = "done",
                                   !.success = got.success,
                                   !.db_error = got.raised,
                                   !.access_token = access_token,
                                   !.url = url,
                                   !.remote = IF got.requests = <<>> THEN <<>>
                                              ELSE remote,
                                   !.requests = got.requests,
                                   !.statements = got.statements,
                                   !.failed = IF got.raised
                                              THEN [op |-> "pull", at |-> got.statements + 1]
                                              ELSE @,
                                   !.records = IF got.requests = <<>> THEN <<>>
                                               ELSE get_bitable_records(remote),
                                   !.now = now]]
    /\ UNCHANGED <<second_table, disk>>

\* The cap data_sync_task passes to the new-record selection.
limit == 2

\* data_sync_task, step 1: create_database_tables; a failure ends the task.
SyncStart(p) ==
    /\ MayStart(p, "sync") \/ Continues(p, "fetch")
    /\ Started(p, "sync")
    /\ \E create_ok \in BOOLEAN :
         proc' = [proc EXCEPT ![p] =
             IF create_ok
             THEN [Enter(p, "sync", "sync") EXCEPT !.pc = "test_data"]
             ELSE [Enter(p, "sync", "sync") EXCEPT !.pc = "done", !.success = FALSE,
                                                   !.db_error = TRUE]]
    /\ UNCHANGED <<first_table, second_table, disk>>

\* Step 2: SELECT COUNT(*) FROM first_table; test data for an empty table, and
\* also when the count cannot be read.
SyncTestData(p) ==
    /\ Runs(p)
    /\ proc[p].pc = "test_data"
    /\ \E count_ok, db_ok \in BOOLEAN :
         LET insert == ~count_ok \/ Cardinality(first_table) = 0
         IN  /\ first_table' =
                    IF insert
                    THEN insert_test_data_to_first_table(first_table, FALSE, db_ok)
                    ELSE first_table
             /\ proc' = [proc EXCEPT ![p].pc = "select_new",
                                     ![p].db_error = ~count_ok \/ (insert /\ ~db_ok)]
    /\ UNCHANGED <<second_table, disk, runs, overlap>>

\* get_second_table_count(): 0 when the query raises.
get_second_table_count(second, db_ok) == IF db_ok THEN Cardinality(second) ELSE 0

\* Steps 3 and 4a: before_count, then
\* new_records = get_new_records_from_first_table(limit=2), the empty list
\* when the query raises.
SyncSelectNew(p) ==
    /\ Runs(p)
    /\ proc[p].pc = "select_new"
    /\ \E count_ok, db_ok \in BOOLEAN :
       \E got \in get_new_records_from_first_table(first_table, second_table, limit) :
         proc' = [proc EXCEPT ![p].pc = "select_existing",
                              ![p].before_count =
                                  get_second_table_count(second_table, count_ok),
                              ![p].new_records = IF db_ok THEN got ELSE <<>>,
                              ![p].db_error = @ \/ ~count_ok \/ ~db_ok]
    /\ UNCHANGED <<first_table, second_table, disk, runs, overlap>>

\* Step 4b: existing_records = get_existing_records_from_first_table()
SyncSelectExisting(p) ==
    /\ Runs(p)
    /\ proc[p].pc = "select_existing"
    /\ \E db_ok \in BOOLEAN :
       \E got \in get_existing_records_from_first_table(first_table, second_table) :
         proc' = [proc EXCEPT ![p].pc = "insert",
                              ![p].existing_records = IF db_ok THEN got ELSE <<>>,
                              ![p].db_error = @ \/ ~db_ok]
    /\ UNCHANGED <<first_table, second_table, disk, runs, overlap>>

\* Step 5: inserted_count = insert_new_records(new_records)
SyncInsert(p) ==
    /\ Runs(p)
    /\ proc[p].pc = "insert"
    /\ \E fail_at \in 0..MaxFailAt :
         LET got == insert_new_records(second_table, proc[p].new_records, fail_at)
         IN  /\ second_table' = got.table
             /\ proc' = [proc EXCEPT ![p].pc = "update",
                                     ![p].inserted_count = got.count,
                                     ![p].failed = IF got.raised
                                                   THEN [op |-> "insert",
                                                         at |-> got.statements + 1]
                                                   ELSE @,
                                     ![p].db_error = @ \/ got.raised]
    /\ UNCHANGED <<first_table, disk, runs, overlap>>

\* Steps 6 and 7: updated_count = update_existing_records(existing_records),
\* after_count; the task then returns its summary.
SyncUpdate(p) ==
    /\ Runs(p)
    /\ proc[p].pc = "update"
    /\ \E fail_at \in 0..MaxFailAt, count_ok \in BOOLEAN :
         LET got == update_existing_records(second_table, proc[p].existing_records,
                                            fail_at)
         IN  /\ second_table' = got.table
             /\ proc' = [proc EXCEPT
                    ![p].pc = "done",
                    ![p].updated_count = got.count,
                    ![p].after_count = get_second_table_count(got.table, count_ok),
                    ![p].requeued = {Key(s) : s \in
                                       {t \in second_table :
                                          t.makevideo = 1 /\ t \notin got.table}},
                    ![p].failed = IF got.raised
                                  THEN [op |-> "update", at |-> got.statements + 1]
                                  ELSE @,
                    ![p].db_error = @ \/ got.raised \/ ~count_ok]
    /\ UNCHANGED <<first_table, disk, runs, overlap>>

\* pending_records = get_pending_download_records().  The SELECT has no
\* ORDER BY, so the list is in any order: the model holds the records as a set
\* and chooses the next one when the loop reaches it.
get_pending_download_records(second) == {PendingRecord(s) : s \in PendingRows(second)}

\* The records of pending_records the loop has not reached yet.
Remaining(p) == proc[p].pending_records \ {e.record : e \in proc[p].log}

\* A task that goes on without a token.
NoTokenIgnored(access_token) == FALSE

\* if not access_token: raise Exception(...)
NoToken(access_token) == ~Truthy(access_token)

\* file_download_task, steps 1-3: the token, then the pending records; no
\* token ends the task as failed, no pending record ends it as done.
DownloadStart(p) ==
    /\ MayStart(p, "download") \/ Continues(p, "sync")
    /\ Started(p, "download")
    /\ \E auth_ok, db_ok \in BOOLEAN :
         LET access_token == get_feishu_access_token(auth_ok)
             pending == IF db_ok THEN get_pending_download_records(second_table) ELSE {}
         IN  proc' = [proc EXCEPT ![p] =
                 IF NoToken(access_token)
                 THEN [Enter(p, "download", "download") EXCEPT
                          !.pc = "done", !.success = FALSE]
                 ELSE [Enter(p, "download", "download") EXCEPT
                          !.pc = IF pending = {} THEN "done" ELSE "loop",
                          !.access_token = access_token,
                          !.pending_records = pending,
                          !.db_error = ~db_ok]]
    /\ UNCHANGED <<first_table, second_table, disk>>

\* Step 4, one pass of the loop over pending_records: download the project's
\* files, then mark it done when all of them succeeded.  An entry of log is
\* what the pass did: the key it used, the downloads attempted and failed,
\* the files written, the value of download_success and of update_success.
DownloadRecord(p) ==
    /\ Runs(p)
    /\ proc[p].pc = "loop"
    /\ \E record \in Remaining(p) :
       LET manju == Strip(record.manju)
           submit_time == Strip(record.submit_time)
       IN  \E failing \in SUBSET (TokensOf(record.zimu) \cup TokensOf(record.miaoshu)),
              update_ok \in BOOLEAN :
             LET got == download_project_files(manju, submit_time, record.zimu,
                                               record.miaoshu, proc[p].access_token,
                                               failing)
                 update_success == got.overall_success /\ update_ok
             IN  /\ disk' = disk \cup got.written
                 /\ second_table' =
                        IF update_success
                        THEN update_makevideo_status(second_table, manju, submit_time, 1)
                        ELSE second_table
                 /\ proc' = [proc EXCEPT
                        ![p].log = @ \cup {[record |-> record,
                                            manju |-> manju,
                                            submit_time |-> submit_time,
                                            folder |-> got.folder,
                                            raised |-> got.raised,
                                            attempts |-> got.attempts,
                                            failed |-> got.failed,
                                            written |-> got.written,
                                            download_success |-> got.overall_success,
                                            update_success |-> update_success]},
                        ![p].success_count = IF update_success THEN @ + 1 ELSE @,
                        ![p].failed_count = IF update_success THEN @ ELSE @ + 1,
                        ![p].db_error = @ \/ (got.overall_success /\ ~update_ok),
                        ![p].pc = IF Remaining(p) = {record} THEN "done" ELSE "loop"]
    /\ UNCHANGED <<first_table, runs, overlap>>

\* main "clean": clean_test_data().
Clean(p) ==
    /\ MayStart(p, "clean")
    /\ Started(p, "clean")
    /\ \E db_ok \in BOOLEAN :
         LET got == clean_test_data(first_table, second_table, db_ok)
         IN  /\ first_table' = got.first
             /\ second_table' = got.second
             /\ proc' = [proc EXCEPT ![p] =
                   [Enter(p, "clean", "clean") EXCEPT
                       !.pc = "done", !.success = got.success, !.db_error = ~db_ok]]
    /\ UNCHANGED disk

\* The value main holds in `result` once the task of process p has returned:
\* the dict of the task (its "success" entry), for daily_complete_task the
\* dict of the three stage results.
result(p) ==
    IF IsDaily(proc[p].command)
    THEN [fetch_result |-> [success |-> proc[p].fetch_success],
          sync_result |-> [success |-> proc[p].sync_success],
          download_result |-> [success |-> proc[p].success]]
    ELSE [success |-> proc[p].success]

\* sys.exit(0) if result.get("success", True) else sys.exit(1)
exit_code(res) == IF DictGet(res, "success", TRUE) THEN 0 ELSE 1

\* main: the summary is reported and the process exits.
Exit(p) ==
    /\ Finished(p)
    /\ proc' = [proc EXCEPT ![p] = Idle]
    /\ UNCHANGED <<first_table, second_table, disk, runs, overlap>>

Next ==
    \E p \in Procs :
        \/ Fetch(p)
        \/ SyncStart(p)
        \/ SyncTestData(p)
        \/ SyncSelectNew(p)
        \/ SyncSelectExisting(p)
        \/ SyncInsert(p)
        \/ SyncUpdate(p)
        \/ DownloadStart(p)
        \/ DownloadRecord(p)
        \/ Clean(p)
        \/ Exit(p)

\* Invocations one after the other (the cron schedule of the deployment).
Spec == Init /\ [][Next]_vars

\* Invocations that may overlap.
SpecOverlap == InitOverlap /\ [][Next]_vars

\* "2025/01/01 10:00:00"
TimeSlashes ==
    <<"2", "0", "2", "5", "/", "0", "1", "/", "0", "1", " ",
      "1", "0", ":", "0", "0", ":", "0", "0">>

\* A text with every character the folder name may not hold, between
\* characters it may hold.
TimeAllIllegal ==
    <<"a", ":", "/", "\\", "*", "?", "\"", "<", ">", "|", " ", "_", "-", ".", ":", "b">>

\* Submission times with a trailing and a leading blank.
TimeTrailingBlank == Time10 \o <<" ">>

TimeLeadingBlank == <<" ">> \o Time11

\* A title with characters the sanitization replaces in the time.
TitleWithIllegal == <<"A", ":", " ", "/", "B">>

\* The titles and submission times a row of second_table is drawn with.
StoredTitles == {TitleA, TitleBlankA, TitleWithIllegal}

StoredTimes == {Time10, TimeSlashes, TimeAllIllegal, TimeTrailingBlank, TimeLeadingBlank}

\* file_download_task over a processing table that holds one pending row with
\* a drawn title and a drawn submission time.
\* A sync and a download that overlap on a pending row whose payload was
\* edited in the remote table after the row was stored: the staging table
\* holds the edited record (with the submission time as before, or a later
\* one), the processing table still the payload stored first.
InitRace ==
    /\ \E submit_time \in {Time10, Time11} :
          first_table = {FirstRow(ZimuTwo, TitleA, MiaoshuOne, "nan", submit_time)}
    /\ second_table = {SecondRow(ZimuOne, TitleA, MiaoshuOne, "nan", Time10, 0)}
    /\ disk = {}
    /\ proc = [p \in Procs |-> Idle]
    /\ runs = 0
    /\ overlap = TRUE

NextRace ==
    \E p \in Procs :
        \/ SyncStart(p)
        \/ SyncTestData(p)
        \/ SyncSelectNew(p)
        \/ SyncSelectExisting(p)
        \/ SyncInsert(p)
        \/ SyncUpdate(p)
        \/ DownloadStart(p)
        \/ DownloadRecord(p)
        \/ Exit(p)

SpecRace == InitRace /\ [][NextRace]_vars

\* Rows the staging table may hold when the syncs start: three rows with both
\* payloads and one without a description payload, each with a key of its
\* own.
StagingRows ==
    {FirstRow(ZimuOne, TitleA, MiaoshuOne, "nan", Time10),
     FirstRow(ZimuOne, TitleA, MiaoshuOne, "nv", Time11),
     FirstRow(ZimuTwo, TitleBlankA, MiaoshuOne, "nan", Time11),
     FirstRow(ZimuOne, TitleBlankA, Blank, "nv", Time10)}

\* Sync invocations, one after the other, over a staging table no pull
\* changes and an empty processing table.
InitConverge ==
    /\ first_table \in SUBSET StagingRows
    /\ second_table = {}
    /\ disk = {}
    /\ proc = [p \in Procs |-> Idle]
    /\ runs = 0
    /\ overlap = FALSE

NextConverge ==
    \E p \in Procs :
        \/ SyncStart(p)
        \/ SyncTestData(p)
        \/ SyncSelectNew(p)
        \/ SyncSelectExisting(p)
        \/ SyncInsert(p)
        \/ SyncUpdate(p)
        \/ Exit(p)

SpecConverge == InitConverge /\ [][NextConverge]_vars

\* The tables after a record was pulled and synced and a later pull no longer
\* listed it: the processing table holds the row (nv, A), pending or done,
\* the staging table holds no row with that key but the record (nan, A).
InitKept ==
    /\ first_table = {FirstRow(ZimuTwo, TitleA, MiaoshuOne, "nan", Time11)}
    /\ \E makevideo \in {0, 1} :
          second_table = {SecondRow(ZimuOne, TitleA, MiaoshuOne, "nv", Time10,
                                    makevideo)}
    /\ disk = {}
    /\ proc = [p \in Procs |-> Idle]
    /\ runs = 0
    /\ overlap = FALSE

\* The pull, the reconcile and the download operations (no clean).
NextKept ==
    \E p \in Procs :
        \/ Fetch(p)
        \/ SyncStart(p)
        \/ SyncTestData(p)
        \/ SyncSelectNew(p)
        \/ SyncSelectExisting(p)
        \/ SyncInsert(p)
        \/ SyncUpdate(p)
        \/ DownloadStart(p)
        \/ DownloadRecord(p)
        \/ Exit(p)

SpecKept == InitKept /\ [][NextKept]_vars

\* The requests one call of get_bitable_records may make in the model.
MaxRequests == 4

\* The record on each page of a remote table of three pages.
PageItems == <<RecA, RecANv, RecBlankA>>

\* The pages a remote table may send as its i-th page: the request raises, is
\* answered with an error code, or is answered with one record, has_more or
\* not, and the token of a later page or none.

PagesAt(i) ==
    {Page(TRUE, 0, <<>>, FALSE, 0), Page(FALSE, 99991663, <<>>, FALSE, 0)}
      \cup {Page(FALSE, 0, <<PageItems[i]>>, has_more, page_token) :
               has_more \in BOOLEAN, page_token \in {0} \cup ((i + 1)..Len(PageItems))}

PagedRemotes ==
    {<<first, second, third>> :
        first \in PagesAt(1), second \in PagesAt(2), third \in PagesAt(3)}

\* One call of get_bitable_records against a remote table: page_token = None
\* (0 in the model), has_more = True, no record yet.
InitPages ==
    /\ first_table = {}
    /\ second_table = {}
    /\ disk = {}
    /\ \E remote \in PagedRemotes :
          proc = [p \in Procs |->
                    IF p = 1
                    THEN [Idle EXCEPT !.command = "fetch", !.cmd = "fetch",
                                      !.pc = "pages", !.remote = remote,
                                      !.access_token = "tenant_access_token"]
                    ELSE Idle]
    /\ runs = 1
    /\ overlap = FALSE

\* One pass of `while has_more` in get_bitable_records: the request with the
\* page token held (none when it is falsy), then the answer: a raising
\* request or an error code breaks the loop, an answer with code 0 adds its
\* items and sets has_more and page_token from its data.
BitableRequest(p) ==
    /\ proc[p].pc = "pages"
    /\ proc[p].has_more
    /\ Len(proc[p].requests) < MaxRequests
    /\ LET answer == Respond(proc[p].remote, proc[p].page_token)
           requests == Append(proc[p].requests, proc[p].page_token)
       IN  proc' = [proc EXCEPT ![p] =
               IF answer.raises \/ answer.code # 0
               THEN [@ EXCEPT !.requests = requests, !.pc = "returned"]
               ELSE [@ EXCEPT !.requests = requests,
                              !.records = @ \o answer.items,
                              !.has_more = answer.has_more,
                              !.page_token = answer.page_token,
                              !.pc = IF answer.has_more THEN "pages" ELSE "returned"]]
    /\ UNCHANGED <<first_table, second_table, disk, runs, overlap>>

NextPages == \E p \in Procs : BitableRequest(p)

SpecPages == InitPages /\ [][NextPages]_vars

\* Texts a payload column may hold that are not a JSON list.
NotLists == {Unparseable, JsonNumber, JsonString, JsonObject}

\* The two payloads of a stored row: both lists, or one of them not a list.
StoredPayloads ==
    {<<ZimuOne, MiaoshuOne>>}
        \cup {<<text, MiaoshuOne>> : text \in NotLists}
        \cup {<<ZimuOne, text>> : text \in NotLists}

InitFiles ==
    /\ first_table = {}
    /\ \E manju \in StoredTitles, submit_time \in StoredTimes,
          payloads \in StoredPayloads :
          second_table = {SecondRow(payloads[1], manju, payloads[2], "nan",
                                    submit_time, 0)}
    /\ disk = {}
    /\ proc = [p \in Procs |-> Idle]
    /\ runs = 0
    /\ overlap = FALSE

NextFiles == \E p \in Procs : DownloadStart(p) \/ DownloadRecord(p) \/ Exit(p)

SpecFiles == InitFiles /\ [][NextFiles]_vars

\* ------------------------------------------------------------ properties

\* The rows of second_table with the natural key of row f.
Counterparts(f) == {s \in second_table : SameKey(s, f)}

\* Process p has finished a sync whose database calls all succeeded.
CleanSyncDone(p) ==
    /\ proc[p].cmd = "sync"
    /\ proc[p].pc = "done"
    /\ proc[p].success
    /\ ~proc[p].db_error

\* The processing rows of the records the update phase was given carry the
\* staging values and makevideo = 0.
Overwritten(p) ==
    \A r \in Range(proc[p].existing_records) :
        /\ Counterparts(r) # {}
        /\ \A s \in Counterparts(r) :
              /\ s.zimu = r.zimu
              /\ s.miaoshu = r.miaoshu
              /\ s.submit_time = r.submit_time
              /\ s.makevideo = 0

\* C1 as stated: after a sync that left staging as it was (it holds no test
\* data), every staging row with non-empty payloads and
\* a match in processing has overwritten its processing row and reset its
\* flag to 0, and a second run started now selects the same existing-record
\* set as this run did.
C1_SameExistingSet ==
    \A p \in Procs :
        (CleanSyncDone(p) /\ ~\E f \in first_table : LikeTest(f.manju)) =>
            /\ Overwritten(p)
            /\ ExistingRows(first_table, second_table) = Range(proc[p].existing_records)

\* C1: after a sync, every staging row with non-empty payloads and a match in
\* processing has overwritten the subtitle payload, description payload and
\* submission time of its processing row and reset its flag to 0, whatever
\* the flag was; a second run started now selects the existing-record set of
\* this run together with the rows this run inserted.
C1_UpdateResetsFlag ==
    \A p \in Procs :
        CleanSyncDone(p) =>
            /\ Overwritten(p)
            /\ \A f \in ExistingRows(first_table, second_table) :
                  \A s \in Counterparts(f) :
                      /\ s.zimu = f.zimu
                      /\ s.miaoshu = f.miaoshu
                      /\ s.submit_time = f.submit_time
                      /\ s.makevideo = 0
            /\ ExistingRows(first_table, second_table) =
                  Range(proc[p].existing_records) \cup Range(proc[p].new_records)

\* A sync that overwrote processing rows and reset to 0 a flag that was 1.
C1_Witness ==
    \E p \in Procs :
        /\ CleanSyncDone(p)
        /\ proc[p].requeued # {}
        /\ proc[p].updated_count > 0

\* No two rows of second_table have the same (category, title).
UniqueProcessingKey == \A a, b \in second_table : SameKey(a, b) => a = b

\* An insert phase given a record whose key is already in second_table stores
\* nothing and reports a database error.
InsertRejected ==
    \A p \in Procs :
        ( /\ proc[p].pc = "insert"
          /\ proc'[p].pc = "update"
          /\ \E r \in Range(proc[p].new_records) : Counterparts(r) # {} )
        => /\ second_table' = second_table
           /\ proc'[p].inserted_count = 0
           /\ proc'[p].db_error

\* C2: in every reachable state, overlapping syncs included, the processing
\* table holds at most one row per (category, title); an insert of a key
\* already present is rejected and stores no duplicate.
C2_UniqueKey == []UniqueProcessingKey /\ [][InsertRejected]_vars

\* Two overlapping syncs selected the same new row; one inserted it, the
\* insert of the other was rejected.
C2_Witness ==
    \E p, q \in Procs :
        /\ p # q
        /\ proc[p].cmd = "sync" /\ proc[q].cmd = "sync"
        /\ proc[q].inserted_count > 0
        /\ proc[p].pc = "update"
        /\ proc[p].inserted_count = 0
        /\ proc[p].db_error
        /\ \E r \in Range(proc[p].new_records) :
              /\ r \in Range(proc[q].new_records)
              /\ Counterparts(r) # {}

\* C3 as stated: a row whose download or status update failed in a download
\* invocation still has flag 0 when the invocation ends, rows that share
\* title and submission time with a row of another category included.
C3_FailedStaysPending ==
    \A p \in Procs :
        (proc[p].cmd = "download" /\ proc[p].pc = "done") =>
            \A e \in proc[p].log :
                ~e.update_success =>
                    \A s \in second_table :
                        Key(s) = e.record.row => s.makevideo = 0

\* C4 as stated: download_project_files reports success exactly when every
\* attempted download succeeded; the row of a project reported successful
\* and marked without error has flag 1; a project with one subtitle entry and
\* one description entry whose downloads both succeed has written exactly two
\* files and its row has flag 1.
C4_SuccessMarksRow ==
    \A p \in Procs :
        proc[p].cmd = "download" =>
            \A e \in proc[p].log :
                /\ e.download_success <=> (e.failed = <<>>)
                /\ e.update_success =>
                      \A s \in second_table :
                          Key(s) = e.record.row => s.makevideo = 1
                /\ ( /\ Len(Entries(e.record.zimu)) = 1
                     /\ Len(Entries(e.record.miaoshu)) = 1
                     /\ e.failed = <<>>
                     /\ e.update_success )
                   => /\ Cardinality(e.written) = 2
                      /\ \A s \in second_table :
                            Key(s) = e.record.row => s.makevideo = 1

\* An entry of a payload list that download_project_files tries to download:
\* an object with a file token and, when it has a name, a non-empty one.
WellFormed(item) ==
    /\ IsDict(item)
    /\ "file_token" \in DOMAIN item
    /\ Truthy(item.file_token)
    /\ "name" \in DOMAIN item => Truthy(item.name)

\* The file tokens of the well-formed entries of a payload, in order.
TokenSeq(text) ==
    LET entries == SelectSeq(Entries(text), WellFormed)
    IN  [i \in DOMAIN entries |-> entries[i].file_token]

\* What a pass of the download loop that adds entry e to the log did.
KeptGoing(e) ==
    /\ e.attempts = TokenSeq(e.record.zimu) \o TokenSeq(e.record.miaoshu)
    /\ Cardinality(e.written) = Len(e.attempts) - Len(e.failed)
    /\ e.written \subseteq disk'
    /\ disk \subseteq disk'
    /\ e.failed # <<>> => (~e.download_success /\ second_table' = second_table)

\* C5: within one project a failed download does not stop the others: every
\* well-formed subtitle entry and then every well-formed description entry
\* is attempted whatever failed before, the files written stay on disk, and
\* the pass of a project with a failed download leaves the flags as they
\* were.
C5_FailureDoesNotStop ==
    [][\A p \in Procs : \A e \in proc'[p].log \ proc[p].log : KeptGoing(e)]_vars

\* A project whose first download failed and whose later download was
\* attempted and written; its row still has flag 0.
C5_Witness ==
    \E p \in Procs :
        \E e \in proc[p].log :
            /\ Len(e.attempts) >= 2
            /\ e.failed = <<e.attempts[1]>>
            /\ e.written # {}
            /\ e.written \subseteq disk
            /\ \A s \in second_table : Key(s) = e.record.row => s.makevideo = 0

\* The status update of a pass that adds entry e to the log: the rows with the
\* title and the time the pass used get flag 1, every other row is as before;
\* a pass without a status update changes no row.
MarkedExactly(e) ==
    LET hit(s) == s.manju = e.manju /\ s.submit_time = e.submit_time
    IN  IF e.update_success
        THEN /\ \A s \in second_table :
                   IF hit(s) THEN [s EXCEPT !.makevideo = 1] \in second_table'
                             ELSE s \in second_table'
             /\ \A t \in second_table' :
                   \E s \in second_table :
                       t = IF hit(s) THEN [s EXCEPT !.makevideo = 1] ELSE s
        ELSE second_table' = second_table

\* C6: the status update of a finished project sets the flag to 1 on exactly
\* the rows whose title and time equal the title and time of the project (the
\* stripped values file_download_task works with), whatever their category:
\* zero rows or several rows may match, and no other row changes.
C6_StatusKeyedByTitleTime ==
    [][\A p \in Procs : \A e \in proc'[p].log \ proc[p].log : MarkedExactly(e)]_vars

\* The first pass of a download marked two rows of different categories.
C6_Witness ==
    \E p \in Procs :
        /\ \E e \in proc[p].log : proc[p].log = {e} /\ e.update_success
        /\ \E e \in proc[p].log :
           \E a, b \in second_table :
              /\ a.leixing # b.leixing
              /\ PendingRecord([a EXCEPT !.makevideo = 0]) \in proc[p].pending_records
              /\ PendingRecord([b EXCEPT !.makevideo = 0]) \in proc[p].pending_records
              /\ a.manju = e.manju /\ a.submit_time = e.submit_time
              /\ b.manju = e.manju /\ b.submit_time = e.submit_time
              /\ a.makevideo = 1 /\ b.makevideo = 1

\* The subtitle or description payload of row f is empty after trimming.
BlankPayload(f) == f.zimu \in {"", " "} \/ f.miaoshu \in {"", " "}

\* No selection result of a sync holds a row with a blank payload.
NoBlankSelected ==
    \A p \in Procs :
        \A r \in Range(proc[p].new_records) \cup Range(proc[p].existing_records) :
            ~BlankPayload(r)

\* A step of a sync leaves the processing counterpart of a staging row with
\* a blank payload as it is, and creates none.
BlankUntouched ==
    \A p \in Procs :
        (proc[p].cmd = "sync" /\ proc'[p] # proc[p]) =>
            \A f \in first_table :
                BlankPayload(f) =>
                    {s \in second_table' : SameKey(s, f)} = Counterparts(f)

\* C7: a staging row whose subtitle or description payload is empty after
\* trimming is in neither the new-record nor the existing-record selection:
\* reconciliation neither inserts it nor touches its processing counterpart.
C7_BlankPayloadSkipped == []NoBlankSelected /\ [][BlankUntouched]_vars

\* A finished sync left alone the processing row of a staging row that has a
\* blank payload and a different submission time.
C7_Witness ==
    \E p \in Procs :
        /\ CleanSyncDone(p)
        /\ \E f \in first_table :
              /\ BlankPayload(f)
              /\ \E s \in Counterparts(f) : s.submit_time # f.submit_time

\* The largest cap the selection is tried with.
MaxCap == 3

\* got is a selection of rows with cap c: min(c, n) distinct rows, in
\* descending order of submission time, none later than a row left out.
IsTopByTime(got, rows, c) ==
    /\ Len(got) = (IF c < Cardinality(rows) THEN c ELSE Cardinality(rows))
    /\ Range(got) \subseteq rows
    /\ \A i, j \in DOMAIN got :
          i < j => (got[i] # got[j] /\ ~StrLess(got[i].submit_time, got[j].submit_time))
    /\ \A r \in rows \ Range(got) :
          \A x \in Range(got) : ~StrLess(x.submit_time, r.submit_time)

\* C8: the new-record selection with cap c over n eligible rows returns
\* min(c, n) of them, those with the greatest submission times, in descending
\* order; data_sync_task selects with cap 2 and inserts at most 2 rows a run.
C8_CapAndOrder ==
    /\ \A c \in 0..MaxCap :
          \A got \in get_new_records_from_first_table(first_table, second_table, c) :
              IsTopByTime(got, NewRows(first_table, second_table), c)
    /\ \A p \in Procs :
          proc[p].cmd = "sync" =>
              /\ (proc[p].pc \in {"select_existing", "insert"} /\ ~proc[p].db_error)
                    => IsTopByTime(proc[p].new_records,
                                   NewRows(first_table, second_table), 2)
              /\ proc[p].inserted_count <= 2
              /\ (proc[p].pc = "done" /\ ~proc[p].db_error)
                    => proc[p].after_count - proc[p].before_count
                          = proc[p].inserted_count

\* A sync inserted 2 rows and left an eligible row for the next run.
C8_Witness ==
    \E p \in Procs :
        /\ CleanSyncDone(p)
        /\ proc[p].inserted_count = 2
        /\ proc[p].after_count - proc[p].before_count = 2
        /\ NewRows(first_table, second_table) # {}

\* C9: once the insert phase of a sync has succeeded, every row of the
\* new-record selection is in processing with flag 0 and the staging values
\* of all five fields, and none of them is given to the update phase of the
\* same run.
C9_InsertedPending ==
    \A p \in Procs :
        ( /\ proc[p].cmd = "sync"
          /\ proc[p].pc \in {"update", "done"}
          /\ proc[p].inserted_count = Len(proc[p].new_records) ) =>
            \A r \in Range(proc[p].new_records) :
                /\ [zimu |-> r.zimu, manju |-> r.manju, miaoshu |-> r.miaoshu,
                    leixing |-> r.leixing, submit_time |-> r.submit_time,
                    makevideo |-> 0] \in second_table
                /\ \A x \in Range(proc[p].existing_records) : ~SameKey(x, r)
                /\ Key(r) \notin proc[p].requeued

\* A finished sync that inserted rows and updated other rows.
C9_Witness ==
    \E p \in Procs :
        /\ CleanSyncDone(p)
        /\ proc[p].inserted_count = Len(proc[p].new_records)
        /\ proc[p].inserted_count > 0
        /\ proc[p].updated_count > 0

\* No two rows of first_table have the same (category, title).
UniqueStagingKey == \A a, b \in first_table : SameKey(a, b) => a = b

\* The rows a pull makes of the records it fetched, in order.
PulledRows(p) ==
    [i \in DOMAIN proc[p].records |-> RowOfRecord(proc[p].records[i], proc[p].now)]

\* Process p has finished a pull that stored the records it fetched.
PullDone(p) ==
    /\ proc[p].cmd = "fetch"
    /\ proc[p].pc = "done"
    /\ proc[p].success
    /\ proc[p].records # <<>>

\* C10: staging holds at most one row per (category, title) in every
\* reachable state; of the fetched records of one pull that share a key and
\* are not skipped, the last one gives the row its subtitle payload,
\* description payload and submission time.
C10_UpsertLastWins ==
    /\ UniqueStagingKey
    /\ \A p \in Procs :
          PullDone(p) =>
              LET rows == PulledRows(p)
              IN  \A j \in DOMAIN rows :
                      ( /\ ~Skipped(rows[j])
                        /\ \A k \in DOMAIN rows :
                              (k > j /\ SameKey(rows[k], rows[j])) => Skipped(rows[k]) )
                      => \E f \in first_table :
                            /\ SameKey(f, rows[j])
                            /\ f.zimu = rows[j].zimu
                            /\ f.miaoshu = rows[j].miaoshu
                            /\ f.submit_time = rows[j].submit_time

\* A pull fetched two records with the same key and different payloads; the
\* row has the payload of the later one.
C10_Witness ==
    \E p \in Procs :
        /\ PullDone(p)
        /\ \E i, j \in DOMAIN PulledRows(p) :
              /\ i < j
              /\ SameKey(PulledRows(p)[i], PulledRows(p)[j])
              /\ PulledRows(p)[i].zimu # PulledRows(p)[j].zimu
              /\ \E f \in first_table :
                    SameKey(f, PulledRows(p)[j]) /\ f.zimu = PulledRows(p)[j].zimu

\* The rows of table that are not test fixtures.
NonTest(table) == {f \in table : ~LikeTest(f.manju)}

\* The rows a pull leaves for the records it fetched: for every key, the row
\* of the last record that is not skipped.
Stored(p) ==
    LET rows == PulledRows(p)
    IN  {rows[j] : j \in {i \in DOMAIN rows :
                            /\ ~Skipped(rows[i])
                            /\ \A k \in DOMAIN rows :
                                  (k > i /\ SameKey(rows[k], rows[i])) => Skipped(rows[k])}}

\* Process p has finished a pull that reported success.
PullSucceeded(p) ==
    /\ proc[p].cmd = "fetch"
    /\ proc[p].pc = "done"
    /\ proc[p].success

\* After the pull of p the rows of staging that are not test fixtures are
\* the rows of the records it fetched and did not skip.
Refreshed(p) == NonTest(first_table) = NonTest(Stored(p))

\* The step that takes p from idle to the end of its pull leaves every test
\* fixture whose key no stored record has as it was.
FixturesKept(p) ==
    \A f \in first_table :
        (LikeTest(f.manju) /\ ~\E r \in Stored(p)' : SameKey(r, f)) => f \in first_table'

\* C11 as stated: every pull that reports success is a full refresh: the
\* rows of staging that are not test fixtures are exactly the fetched records
\* that were not skipped, one per key, and the test fixtures no fetched key
\* matches are unchanged.
C11_EveryPullRefreshes ==
    /\ [](\A p \in Procs : PullSucceeded(p) => Refreshed(p))
    /\ [][\A p \in Procs :
            (proc[p].cmd = "idle" /\ PullSucceeded(p)') => FixturesKept(p)]_vars

\* C11: a pull that fetched at least one record and reports success is a full
\* refresh: afterwards the rows of staging that are not test fixtures are
\* exactly the fetched records that were not skipped, one per key, and the
\* test fixtures no fetched key matches are unchanged.
C11_FullRefresh ==
    /\ [](\A p \in Procs : PullDone(p) => Refreshed(p))
    /\ [][\A p \in Procs :
            (proc[p].cmd = "idle" /\ PullDone(p)') => FixturesKept(p)]_vars

\* A pull stored a fetched record next to a test fixture that none of its
\* records matches.
C11_Witness ==
    \E p \in Procs :
        /\ PullDone(p)
        /\ NonTest(first_table) # {}
        /\ \E f \in first_table :
              LikeTest(f.manju) /\ ~\E r \in Stored(p) : SameKey(r, f)

\* Process p has finished a pull that fetched records and in which no
\* database call raised.
PullRan(p) ==
    /\ proc[p].cmd = "fetch"
    /\ proc[p].pc = "done"
    /\ proc[p].records # <<>>
    /\ ~proc[p].db_error

\* C12: during a pull a fetched record with an empty title, an empty
\* subtitle payload or an empty description payload is not inserted into
\* staging, every record after it that has all three is stored, and the pull
\* reports success.
C12_EmptyRecordSkipped ==
    \A p \in Procs :
        PullRan(p) =>
            LET rows == PulledRows(p)
                empty(row) == row.manju = <<>> \/ row.zimu = "" \/ row.miaoshu = ""
            IN  /\ proc[p].success
                /\ \A j \in DOMAIN rows :
                      empty(rows[j]) =>
                          /\ rows[j] \notin first_table
                          /\ \A k \in DOMAIN rows :
                                (k > j /\ ~empty(rows[k])) =>
                                    \E f \in first_table : SameKey(f, rows[k])
                /\ proc[p].statements =
                      1 + Cardinality({j \in DOMAIN rows : ~empty(rows[j])})

\* A pull fetched a record without a title, one without a subtitle payload
\* and one without a description payload, each next to records that have all
\* three, and reported success.
C12_Witness ==
    \E p \in Procs :
        /\ PullRan(p)
        /\ proc[p].success
        /\ LET rows == PulledRows(p)
           IN  /\ \E j \in DOMAIN rows : rows[j].manju = <<>>
               /\ \E j \in DOMAIN rows : rows[j].manju # <<>> /\ rows[j].zimu = ""
               /\ \E j \in DOMAIN rows :
                     rows[j].manju # <<>> /\ rows[j].zimu # "" /\ rows[j].miaoshu = ""
               /\ \E j, k \in DOMAIN rows :
                     /\ j < k
                     /\ rows[j].manju = <<>>
                     /\ rows[k] \in first_table

\* This step is a step of the reconcile task of p.
SyncStep(p) == proc'[p] # proc[p] /\ proc'[p].cmd = "sync"

\* This step is a step of the download task of p.
DownloadStep(p) == proc'[p] # proc[p] /\ proc'[p].cmd = "download"

\* C13 as stated: the reconcile operation and the download operation leave
\* the staging table unchanged for every starting state, an empty staging
\* table included.
C13_OnlyPullWritesStaging ==
    [][\A p \in Procs :
          (SyncStep(p) \/ DownloadStep(p)) => first_table' = first_table]_vars

\* C13: the download operation leaves the staging table unchanged for every
\* starting state; the reconcile operation leaves a staging table that is
\* not empty unchanged and stores the two test fixtures in an empty one; apart
\* from that, staging rows are created, updated or deleted only by the pull
\* and by the removal of the test fixtures that the clean command does.
C13_StagingWriters ==
    [][ /\ \A p \in Procs : DownloadStep(p) => first_table' = first_table
        /\ \A p \in Procs :
              SyncStep(p) =>
                  \/ first_table' = first_table
                  \/ /\ proc[p].pc = "test_data"
                     /\ first_table = {}
                     /\ first_table' = Range(test_data)
        /\ first_table' # first_table =>
              \E p \in Procs :
                  \/ proc'[p].cmd = "fetch"
                  \/ SyncStep(p)
                  \/ proc'[p].cmd = "clean" /\ first_table' = NonTest(first_table) ]_vars

\* A download finished its loop over processing rows that a reconcile made
\* of fetched staging rows, which are still in staging.
C13_Witness ==
    \E p \in Procs :
        /\ proc[p].cmd = "download"
        /\ proc[p].pc = "done"
        /\ proc[p].log # {}
        /\ NonTest(first_table) # {}
        /\ \A f \in first_table : \E s \in second_table : SameKey(s, f)

\* Process p has finished a pull that asked the remote table for records.
PullListed(p) ==
    /\ proc[p].cmd = "fetch"
    /\ proc[p].pc = "done"
    /\ proc[p].requests # <<>>

\* The page the remote table sent for the i-th request of the pull of p.
Fetched(p, i) == Respond(proc[p].remote, proc[p].requests[i])

\* The page was answered with code 0.
PageOk(page) == ~page.raises /\ page.code = 0

\* The items of the first n pages the pull of p fetched, in fetch order.
RECURSIVE ItemsUpTo(_, _)
ItemsUpTo(p, n) == IF n = 0 THEN <<>> ELSE ItemsUpTo(p, n - 1) \o Fetched(p, n).items

\* Every request of the pull of p but the last was answered with code 0 and
\* has_more, and the next request carries the page token of the answer.
Chained(p) ==
    \A i \in 1..(Len(proc[p].requests) - 1) :
        /\ PageOk(Fetched(p, i))
        /\ Fetched(p, i).has_more
        /\ proc[p].requests[i + 1] = Fetched(p, i).page_token

\* C14: get_bitable_records makes its first request without a page token,
\* passes the page token of every answer to the next request, stops after the
\* first page whose has_more is false, and returns the items of the pages in
\* the order it fetched them.
C14_Pagination ==
    \A p \in Procs :
        (PullListed(p) /\ PageOk(Fetched(p, Len(proc[p].requests)))) =>
            /\ proc[p].requests[1] = 0
            /\ Chained(p)
            /\ ~Fetched(p, Len(proc[p].requests)).has_more
            /\ proc[p].records = ItemsUpTo(p, Len(proc[p].requests))

\* A pull of three pages, the first two with has_more, whose page tokens are
\* not in the order of the pages.
C14_Witness ==
    \E p \in Procs :
        /\ PullListed(p)
        /\ proc[p].requests = <<0, 3, 2>>
        /\ Fetched(p, 1).has_more /\ Fetched(p, 2).has_more /\ ~Fetched(p, 3).has_more
        /\ proc[p].records = <<RecBlankA, RecA, RecANv>>

\* C15: when a page request fails, by an exception or by a code other than 0,
\* get_bitable_records requests no further page and returns the items of
\* the pages fetched before it, without raising: the pull goes on with them.
C15_PageFailureStops ==
    \A p \in Procs :
        (PullListed(p) /\ ~PageOk(Fetched(p, Len(proc[p].requests)))) =>
            /\ proc[p].requests[1] = 0
            /\ Chained(p)
            /\ proc[p].records = ItemsUpTo(p, Len(proc[p].requests) - 1)
            /\ proc[p].success \/ proc[p].db_error
            /\ (proc[p].success /\ proc[p].records # <<>>) => Refreshed(p)

\* The second page request of a pull failed while the remote table has a
\* third page; the pull stored the records of the first page.
C15_Witness ==
    \E p \in Procs :
        /\ PullListed(p)
        /\ Len(proc[p].requests) = 2
        /\ ~PageOk(Fetched(p, 2))
        /\ Len(proc[p].remote) = 3
        /\ proc[p].records = Fetched(p, 1).items
        /\ proc[p].records # <<>>
        /\ proc[p].success

\* An entry of a payload list that is an object with a file token and a name.
Complete(item) ==
    /\ IsDict(item)
    /\ "file_token" \in DOMAIN item
    /\ Truthy(item.file_token)
    /\ "name" \in DOMAIN item
    /\ Truthy(item.name)

\* The file tokens of the complete entries of a payload, in order.
CompleteTokenSeq(text) ==
    LET entries == SelectSeq(Entries(text), Complete)
    IN  [i \in DOMAIN entries |-> entries[i].file_token]

\* C16 as stated: in download_project_files an entry that is not an object,
\* lacks a file_token or lacks a name triggers no download attempt (the
\* downloads attempted are those of the entries that have both), does not
\* make the project fail and does not stop the remaining entries.
C16_IncompleteEntrySkipped ==
    \A p \in Procs :
        \A e \in proc[p].log :
            /\ e.attempts = CompleteTokenSeq(e.record.zimu) \o CompleteTokenSeq(e.record.miaoshu)
            /\ e.download_success <=> (e.failed = <<>>)

\* C16: in download_project_files an entry that is not an object, has no
\* file_token or an empty one, or has an empty name triggers no download
\* attempt, does not make the project fail and does not stop the remaining
\* entries; an entry with a file_token and no name is downloaded under the
\* default name of its payload.
C16_MalformedEntrySkipped ==
    \A p \in Procs :
        \A e \in proc[p].log :
            /\ e.attempts = TokenSeq(e.record.zimu) \o TokenSeq(e.record.miaoshu)
            /\ e.download_success <=> (e.failed = <<>>)
            /\ (e.record.zimu = ZimuMixed /\ "t4" \notin Range(e.failed)) =>
                  SavePath(FolderName(e.manju, e.submit_time), "zimu.txt") \in e.written

\* The project whose subtitle payload holds a number, an entry without a
\* token, one without a name, one with an empty name and a complete one was
\* downloaded without a failure: three downloads, three files, success.
C16_Witness ==
    \E p \in Procs :
        \E e \in proc[p].log :
            /\ e.record.zimu = ZimuMixed
            /\ e.attempts = <<"t4", "t1", "t2">>
            /\ e.failed = <<>>
            /\ Cardinality(e.written) = 3
            /\ e.download_success

\* A fetch, sync or download stage that the command of process p ran reported
\* failure.
StageFailed(p) ==
    IF IsDaily(proc[p].command)
    THEN ~proc[p].fetch_success \/ ~proc[p].sync_success \/ ~proc[p].success
    ELSE proc[p].cmd \in {"fetch", "sync", "download"} /\ ~proc[p].success

\* C17: for every command (fetch, sync, download, daily, clean, no argument)
\* main exits with a non-zero code when a fetch, sync or download stage it ran
\* reported failure.
C17_FailureExitsNonZero ==
    \A p \in Procs :
        (Finished(p) /\ StageFailed(p)) => exit_code(result(p)) # 0

\* C18: when file_download_task obtains no token it reports failure, attempts
\* no file download and changes no completion flag: the task ends in the step
\* that asked for the token, and the processing table and the files are as
\* before.
C18_AuthFailureNoDownload ==
    [][\A p \in Procs :
          (DownloadStep(p) /\ proc'[p].access_token = NoneVal) =>
              /\ proc'[p].pc = "done"
              /\ ~proc'[p].success
              /\ proc'[p].log = {}
              /\ second_table' = second_table
              /\ disk' = disk]_vars

\* A download task ended without a token while processing rows were pending.
C18_Witness ==
    \E p \in Procs :
        /\ proc[p].cmd = "download"
        /\ proc[p].pc = "done"
        /\ proc[p].access_token = NoneVal
        /\ ~proc[p].success
        /\ \E s \in second_table : s.makevideo = 0

\* The url has no segment /base/ followed by a letter or a digit.
LacksBase(url) ==
    ~\E i \in 1..Len(url) :
        /\ i + 6 <= Len(url)
        /\ SubSeq(url, i, i + 5) = <<"/", "b", "a", "s", "e", "/">>
        /\ url[i + 6] \in Alnum

\* The query of the url, between its first "?" and its fragment, has no
\* parameter named table.
LacksTable(url) ==
    LET fields == Split(After(Before(url, "#"), "?"), "&")
    IN  ~\E i \in DOMAIN fields : Before(fields[i], "=") = <<"t", "a", "b", "l", "e">>

\* C19: a pull that obtains no token, or whose url has no /base/<letters and
\* digits> segment or no table query parameter, reports failure before it
\* requests a page and before it executes a statement on staging: staging is
\* as before.
C19_BadConfigNoAccess ==
    [][\A p \in Procs :
          ( /\ proc[p].cmd = "idle"
            /\ proc'[p].cmd = "fetch"
            /\ \/ proc'[p].access_token = NoneVal
               \/ LacksBase(proc'[p].url)
               \/ LacksTable(proc'[p].url) ) =>
              /\ ~proc'[p].success
              /\ proc'[p].requests = <<>>
              /\ proc'[p].statements = 0
              /\ first_table' = first_table]_vars

\* A pull with a token and a url that has the /base/ segment and no table
\* parameter reported failure while staging held rows.
C19_Witness ==
    \E p \in Procs :
        /\ proc[p].cmd = "fetch"
        /\ proc[p].pc = "done"
        /\ proc[p].access_token # NoneVal
        /\ ~LacksBase(proc[p].url)
        /\ LacksTable(proc[p].url)
        /\ ~proc[p].success
        /\ first_table # {}

\* This step is the insert phase of the reconcile task of p and its
\* statement number k raised.
InsertFailedAt(p, k) ==
    /\ proc[p].pc = "insert"
    /\ proc'[p].pc = "update"
    /\ proc'[p].failed = [op |-> "insert", at |-> k]

\* This step is the update phase of the reconcile task of p and its
\* statement number k raised.
UpdateFailedAt(p, k) ==
    /\ proc[p].pc = "update"
    /\ proc'[p].pc = "done"
    /\ proc'[p].failed = [op |-> "update", at |-> k]

\* This step is the pull of p and its statement number k raised (the DELETE
\* is statement 1).
PullFailedAt(p, k) ==
    /\ proc[p].cmd = "idle"
    /\ proc'[p].cmd = "fetch"
    /\ proc'[p].failed = [op |-> "pull", at |-> k]

\* The statement numbers at which an operation of the model fails.
FailPoints == 1..(MaxFailAt + 1)

Sanitized == {":", "/", "\\", "*", "?", "\"", "<", ">", "|", " "}

\* The part of the folder name of log entry e that follows the title and
\* the underscore.
TimeSegment(e) == SubSeq(e.folder, Len(e.manju) + 2, Len(e.folder))

\* C21: the project directory name is <title>_<sanitized submission time>:
\* the sanitized time has the length of the submission time, has '_' where
\* the time has one of : / \ * ? " < > | or a blank, and the character of the
\* time everywhere else; the title part is the title, unmodified.
C21_FolderName ==
    \A p \in Procs :
        \A e \in proc[p].log :
            /\ Len(e.folder) = Len(e.manju) + 1 + Len(e.submit_time)
            /\ SubSeq(e.folder, 1, Len(e.manju)) = e.manju
            /\ e.folder[Len(e.manju) + 1] = "_"
            /\ \A i \in DOMAIN e.submit_time :
                  TimeSegment(e)[i] =
                      (IF e.submit_time[i] \in Sanitized THEN "_" ELSE e.submit_time[i])
            /\ \A w \in e.written : w.folder = e.folder

\* A project whose submission time holds all ten characters and whose title
\* holds three of them was downloaded into its directory.
C21_Witness ==
    \E p \in Procs :
        \E e \in proc[p].log :
            /\ Sanitized \subseteq Range(e.submit_time)
            /\ e.manju = TitleWithIllegal
            /\ e.written # {}
            /\ e.written \subseteq disk

\* C22 as stated: for the submission time 2025/01/01 10:00:00 the directory
\* segment is 2025_01_01 10_00_00.
C22_SlashTimeKeepsBlank ==
    \A p \in Procs :
        \A e \in proc[p].log :
            e.submit_time = TimeSlashes =>
                TimeSegment(e) = <<"2", "0", "2", "5", "_", "0", "1", "_", "0", "1", " ",
                                   "1", "0", "_", "0", "0", "_", "0", "0">>

\* C22: for the submission time 2025/01/01 10:00:00 the directory segment is
\* 2025_01_01_10_00_00: the blank is replaced as well.
C22_SlashTime ==
    \A p \in Procs :
        \A e \in proc[p].log :
            e.submit_time = TimeSlashes =>
                TimeSegment(e) = <<"2", "0", "2", "5", "_", "0", "1", "_", "0", "1", "_",
                                   "1", "0", "_", "0", "0", "_", "0", "0">>

\* A project with the submission time 2025/01/01 10:00:00 was downloaded.
C22_Witness ==
    \E p \in Procs :
        \E e \in proc[p].log :
            /\ e.submit_time = TimeSlashes
            /\ e.written # {}

\* ------------------------------------------------------------------- C23

\* The downloads attempted for the subtitle payload and for the description
\* payload use file tokens of their own (t1, t3, t4, t5 and t2).
NoDownloadFor(e, text, other) ==
    text \in NotLists => Range(e.attempts) \subseteq TokensOf(other)

\* C23: a subtitle or description payload that is not a JSON list (a text
\* json.loads rejects, or the JSON text of a number, a string or a single
\* object) is treated as an empty list: the pass that downloads the project
\* raises no exception in download_project_files and attempts no download for
\* that payload.
C23_NotListIsEmpty ==
    \A p \in Procs :
        \A e \in proc[p].log :
            /\ (e.record.zimu \in NotLists \/ e.record.miaoshu \in NotLists) => ~e.raised
            /\ NoDownloadFor(e, e.record.zimu, e.record.miaoshu)
            /\ NoDownloadFor(e, e.record.miaoshu, e.record.zimu)

\* ------------------------------------------------------------------- C24

\* The stage a daily invocation goes to from each stage; "idle" is the
\* process before its start and after its exit.
DailyOrder ==
    {<<"idle", "fetch">>, <<"fetch", "sync">>, <<"sync", "download">>,
     <<"download", "idle">>}

\* The stage of process p has returned and the next one can start.
NextStageStarts(p) ==
    CASE proc[p].cmd = "fetch" -> ENABLED SyncStart(p)
      [] proc[p].cmd = "sync" -> ENABLED DownloadStart(p)
      [] OTHER -> ENABLED Exit(p)

\* C24: the daily operation runs schema creation and the pull, then the
\* reconcile stage, then the download stage, each stage starting only after
\* the one before has returned;
\* when a stage has returned the next one starts whatever it reported, so
\* reconcile and download run after a failed pull or schema creation and
\* download runs after a failed reconcile.
C24_DailyStages ==
    /\ [](\A p \in Procs :
             (IsDaily(proc[p].command) /\ proc[p].pc = "done" /\ Runs(p)) =>
                 NextStageStarts(p))
    /\ [][\A p \in Procs :
             ( /\ IsDaily(proc[p].command) \/ IsDaily(proc'[p].command)
               /\ proc'[p].cmd # proc[p].cmd ) =>
                 /\ <<proc[p].cmd, proc'[p].cmd>> \in DailyOrder
                 /\ proc[p].cmd # "idle" => proc[p].pc = "done"]_vars

\* A daily invocation whose pull and whose reconcile stage reported failure
\* has run its download stage to the end.
C24_Witness ==
    \E p \in Procs :
        /\ IsDaily(proc[p].command)
        /\ ~proc[p].fetch_success
        /\ ~proc[p].sync_success
        /\ proc[p].cmd = "download"
        /\ proc[p].pc = "done"
        /\ proc[p].access_token # NoneVal

\* ------------------------------------------------------------------- C25

\* The passes of the download loop of process p that added one to
\* success_count.
Counted(p) == {e \in proc[p].log : e.update_success}

\* C25: when an invocation of file_download_task ends, no other invocation
\* running, every row it counted in success_count has completion flag 1,
\* whatever the stored title and submission time (leading or trailing
\* whitespace included) and whatever the number of rows the status update
\* matched.
C25_CountedRowsDone ==
    \A p \in Procs :
        ( /\ proc[p].cmd = "download"
          /\ proc[p].pc = "done"
          /\ \A q \in Procs \ {p} : proc[q].cmd = "idle" ) =>
            /\ proc[p].success_count = Cardinality(Counted(p))
            /\ \A e \in Counted(p) :
                  \A s \in second_table :
                      Key(s) = e.record.row => s.makevideo = 1

\* ------------------------------------------------------------------- C26

\* The payload of row s is not the one the pass of entry e selected: a sync
\* overwrote it after the download invocation had read its pending records.
PayloadReplaced(e, s) ==
    /\ Key(s) = e.record.row
    /\ s.zimu # e.record.zimu \/ s.miaoshu # e.record.miaoshu

\* C26 as stated: when the update phase of a sync overwrote the payload of a
\* row after a download invocation selected it as pending and before that
\* invocation wrote its status, the row is pending once both invocations have
\* finished: it is not left with flag 1 while the files on disk come from
\* the older payload.
C26_OverwrittenStaysPending ==
    \A p \in Procs :
        ( /\ proc[p].cmd = "download"
          /\ proc[p].pc = "done"
          /\ \A q \in Procs \ {p} : proc[q].cmd = "idle" ) =>
            \A e \in proc[p].log :
                \A s \in second_table : PayloadReplaced(e, s) => s.makevideo = 0

\* C26: when the update phase of a sync overwrote the payload of a row after
\* a download invocation selected it as pending and before that invocation
\* wrote its status, the last write wins: the status update of the download
\* sets the flag of the row to 1 when it is executed (all downloads of the
\* older payload succeeded) and the row still has the title and the
\* submission time the download uses, and leaves the flag as it is (0, as
\* the sync wrote it) otherwise; the payload stays the one the sync wrote.
C26_LastWriteWins ==
    [][\A p \in Procs :
          \A e \in proc'[p].log \ proc[p].log :
              \A s \in second_table :
                  PayloadReplaced(e, s) =>
                      [s EXCEPT !.makevideo =
                          IF /\ e.update_success
                             /\ s.manju = e.manju
                             /\ s.submit_time = e.submit_time
                          THEN 1 ELSE @] \in second_table']_vars

\* A download invocation has finished, the sync that overlapped it has
\* exited, and the row is marked done with the payload the sync wrote while
\* the files on disk are those of the payload selected before.
C26_Witness ==
    \E p \in Procs :
        /\ proc[p].cmd = "download"
        /\ proc[p].pc = "done"
        /\ \A q \in Procs \ {p} : proc[q].cmd = "idle"
        /\ \E e \in proc[p].log :
              /\ e.update_success
              /\ e.written # {}
              /\ e.written \subseteq disk
              /\ \E s \in second_table :
                    /\ PayloadReplaced(e, s)
                    /\ s.zimu = ZimuTwo
                    /\ s.makevideo = 1

\* ------------------------------------------------------------------- C27

\* Process p starts a download invocation that obtains a token and reads the
\* pending rows.
SelectsPending(p) ==
    /\ DownloadStep(p)
    /\ proc[p].cmd # "download"
    /\ proc'[p].access_token # NoneVal
    /\ ~proc'[p].db_error

\* The row the pass of entry e was selected from has flag `makevideo` after
\* the pass.
RowAfter(e, makevideo) ==
    \A s \in second_table' : Key(s) = e.record.row => s.makevideo = makevideo

\* C27, retry by rerun, in the form of single steps: every download
\* invocation that obtains a token selects exactly the rows with flag 0,
\* however often they failed before and never a row that is done; the pass in
\* which all downloads and the status update of a row succeed marks the row
\* done; a pass that fails leaves the row pending for the next invocation.
C27_RetryByRerun ==
    [][\A p \in Procs :
          /\ SelectsPending(p) =>
                {r.row : r \in proc'[p].pending_records}
                    = {Key(s) : s \in PendingRows(second_table)}
          /\ \A e \in proc'[p].log \ proc[p].log :
                /\ (e.download_success /\ e.update_success) => RowAfter(e, 1)
                /\ ~e.update_success => RowAfter(e, 0)]_vars

\* ------------------------------------------------------------------- C28

\* The insert phase of the sync of process p returns, every database call of
\* the run having succeeded so far.
InsertPhaseDone(p) ==
    /\ proc[p].cmd = "sync"
    /\ proc[p].pc = "insert"
    /\ proc'[p].pc = "update"
    /\ ~proc'[p].db_error

\* C28: with n qualifying staging rows absent from processing, a sync run
\* whose database calls succeed inserts exactly min(2, n) of them and leaves
\* n - min(2, n) absent, staging being unchanged; so ceil(n/2) such runs give
\* every qualifying staging row a processing row with its (category, title),
\* and a run that finds none absent inserts nothing.
C28_CappedConvergence ==
    [][\A p \in Procs :
          InsertPhaseDone(p) =>
              LET remaining == Cardinality(NewRows(first_table, second_table))
              IN  /\ proc'[p].inserted_count = Min(2, remaining)
                  /\ Cardinality(second_table') =
                        Cardinality(second_table) + Min(2, remaining)
                  /\ Cardinality(NewRows(first_table', second_table')) =
                        remaining - Min(2, remaining)
                  /\ first_table' = first_table
                  /\ second_table \subseteq second_table']_vars

\* Three qualifying staging rows, an empty processing table at the start:
\* the third sync run found every row present (two runs had inserted 2 and
\* 1) and inserted nothing.
C28_Witness ==
    \E p \in Procs :
        /\ CleanSyncDone(p)
        /\ runs = 3
        /\ proc[p].inserted_count = 0
        /\ Cardinality({f \in first_table : NonEmptyPayloads(f)}) = 3
        /\ NewRows(first_table, second_table) = {}
        /\ Cardinality(second_table) = 3

\* ------------------------------------------------------------------- C29

\* The (category, title) keys of the processing table.
ProcessingKeys(second) == {Key(s) : s \in second}

\* The processing rows without a staging row of the same key.
WithoutCounterpart == {s \in second_table : ~\E f \in first_table : SameKey(f, s)}

\* C29: no step of a pull, a reconcile or a download deletes a processing
\* row, so the set of (category, title) keys of the processing table only
\* grows; and a step of a sync leaves every processing row that has no
\* staging counterpart as it is, payloads and completion flag included.
C29_RowsKept ==
    [][(\A p \in Procs : proc'[p].cmd # "clean" \/ proc'[p] = proc[p]) =>
          /\ ProcessingKeys(second_table) \subseteq ProcessingKeys(second_table')
          /\ \A p \in Procs :
                SyncStep(p) => WithoutCounterpart \subseteq second_table']_vars

\* A sync that updated a row has returned, and the row (nv, A), which has no
\* staging counterpart, is still stored with the payload and the flag 1 it
\* had before.
C29_Witness ==
    \E p \in Procs :
        /\ CleanSyncDone(p)
        /\ proc[p].updated_count > 0
        /\ SecondRow(ZimuOne, TitleA, MiaoshuOne, "nv", Time10, 1) \in WithoutCounterpart

\* ------------------------------------------------------------------- C30

\* The step in which process p runs a pull that asked the remote table for
\* records and got none.
PullGotNothing(p) ==
    /\ proc'[p] # proc[p]
    /\ proc'[p].cmd = "fetch"
    /\ proc'[p].requests # <<>>
    /\ proc'[p].records = <<>>

\* C30: a pull whose listing yields zero records (the remote table is empty,
\* or the request of the first page fails) executes no statement on the
\* staging table, leaves the staging table unchanged and reports success.
C30_EmptyListingNoWrite ==
    [][\A p \in Procs :
          PullGotNothing(p) =>
              /\ proc'[p].statements = 0
              /\ ~proc'[p].db_error
              /\ first_table' = first_table
              /\ proc'[p].success]_vars

\* The request of the first page of a pull failed while the staging table
\* held a pulled row: the pull has reported success and the row is still
\* there.
C30_Witness ==
    \E p \in Procs :
        /\ PullListed(p)
        /\ proc[p].records = <<>>
        /\ Fetched(p, 1).raises
        /\ proc[p].success
        /\ proc[p].statements = 0
        /\ NonTest(first_table) # {}

\* ------------------------------------------------------------------- C31

\* The pages process p has asked for so far, by the index of the page the
\* remote table sends for each request.
PagesRequested(p) ==
    [i \in DOMAIN proc[p].requests |->
        IF proc[p].requests[i] = 0 THEN 1 ELSE proc[p].requests[i]]

\* C31: get_bitable_records stops at the first answer that fails or reports
\* has_more = false, with no request after it and a finite result, and it
\* asks for every page at most once, also when an answer reports
\* has_more = true without a page_token.
C31_OneRequestPerPage ==
    \A p \in Procs :
        LET asked == PagesRequested(p)
        IN  /\ \A i \in DOMAIN asked :
                  LET page == Fetched(p, i)
                  IN  (page.raises \/ page.code # 0 \/ ~page.has_more) =>
                          /\ i = Len(asked)
                          /\ proc[p].pc = "returned"
            /\ Len(proc[p].records) <= Len(asked)
            /\ \A i, j \in DOMAIN asked : asked[i] = asked[j] => i = j
====
